---- MODULE Spec2Model ----
(***************************************************************************)
(* Model of core/Manager.py: the dependency resolver (Manager.toposort)    *)
(* and the module registry (configure, configureModule, connectModule,     *)
(* activateModule).                                                        *)
(*                                                                         *)
(* A Python dict is modelled as a sequence of entries [k |-> key,          *)
(* v |-> value] with pairwise distinct keys, in insertion order.           *)
(***************************************************************************)
EXTENDS Integers, Sequences, FiniteSets, TLC

(***************************************************************************)
(* Bounds of the model.                                                    *)
(***************************************************************************)
MaxKeys == 2
MaxDepLen == 2
MaxCost == 1

(***************************************************************************)
(* Ordered dictionaries.                                                   *)
(***************************************************************************)
Range(s) == {s[i] : i \in DOMAIN s}

SeqsUpTo(S, n) == UNION {[1..m -> S] : m \in 0..n}

Has(d, k) == \E i \in DOMAIN d : d[i].k = k

Get(d, k) == d[CHOOSE i \in DOMAIN d : d[i].k = k].v

Keys(d) == [i \in DOMAIN d |-> d[i].k]

KeySet(d) == {d[i].k : i \in DOMAIN d}

Put(d, k, v) ==
    IF Has(d, k)
    THEN [i \in DOMAIN d |-> IF d[i].k = k THEN [k |-> k, v |-> v] ELSE d[i]]
    ELSE Append(d, [k |-> k, v |-> v])

Del(d, k) == SelectSeq(d, LAMBDA e : e.k # k)

DistinctKeys(d) == \A i, j \in DOMAIN d : d[i].k = d[j].k => i = j

(***************************************************************************)
(* Manager.toposort                                                        *)
(***************************************************************************)
NodeNames == {"a", "b", "ab"}

\* set(n) of a node name n: the set of its characters
Chars(n) ==
    CASE n = "ab" -> {"a", "b"}
      [] OTHER -> {n}

NoCost == [given |-> FALSE, map |-> <<>>]

\* cost.get(x, 0)
CostGet(cost, x) == IF x \in DOMAIN cost.map THEN cost.map[x] ELSE 0

\* for k2 in v: if k2 not in deps: deps[k2] = []
RECURSIVE AddMissing(_, _, _)
AddMissing(deps, v, j) ==
    IF j > Len(v) THEN deps
    ELSE AddMissing(IF Has(deps, v[j]) THEN deps ELSE Put(deps, v[j], <<>>), v, j + 1)

\* for k, v in list(deps0.items()): deps[k] = v[:]; ...
RECURSIVE NormalizeFrom(_, _, _)
NormalizeFrom(deps0, i, deps) ==
    IF i > Len(deps0) THEN deps
    ELSE NormalizeFrom(deps0, i + 1,
                       AddMissing(Put(deps, deps0[i].k, deps0[i].v), deps0[i].v, 1))

Normalize(deps0) == NormalizeFrom(deps0, 1, <<>>)

\* ready = [k for k in deps if len(deps[k]) == 0]
Ready(deps) == Keys(SelectSeq(deps, LAMBDA e : Len(e.v) = 0))

\* key = lambda x: totalCost.get(x, 0); without cost there is no key
NoKey == [given |-> FALSE, total |-> <<>>]

KeyOf(key, x) == IF x \in DOMAIN key.total THEN key.total[x] ELSE 0

\* a sort that is not stable: a later element overtakes earlier ones of equal key
RECURSIVE InsertDescUnstable(_, _, _)
InsertDescUnstable(sorted, x, key) ==
    IF sorted = <<>> THEN <<x>>
    ELSE IF KeyOf(key, Head(sorted)) > KeyOf(key, x)
         THEN <<Head(sorted)>> \o InsertDescUnstable(Tail(sorted), x, key)
         ELSE <<x>> \o sorted

\* list.sort(key=key, reverse=True): stable, descending
RECURSIVE InsertDesc(_, _, _)
InsertDesc(sorted, x, key) ==
    IF sorted = <<>> THEN <<x>>
    ELSE IF KeyOf(key, Head(sorted)) >= KeyOf(key, x)
         THEN <<Head(sorted)>> \o InsertDesc(Tail(sorted), x, key)
         ELSE <<x>> \o sorted

RECURSIVE SortDescFrom(_, _, _, _)
SortDescFrom(s, i, acc, key) ==
    IF i > Len(s) THEN acc
    ELSE SortDescFrom(s, i + 1, InsertDesc(acc, s[i], key), key)

SortDesc(s, key) == SortDescFrom(s, 1, <<>>, key)

\* v.remove(x): drops the first occurrence of x, if any
RECURSIVE RemoveFirst(_, _)
RemoveFirst(v, x) ==
    IF v = <<>> THEN <<>>
    ELSE IF Head(v) = x THEN Tail(v)
         ELSE <<Head(v)>> \o RemoveFirst(Tail(v), x)

\* del deps[n]; for v in list(deps.values()): v.remove(n)
RemoveNode(deps, n) ==
    LET rest == Del(deps, n)
    IN  [i \in DOMAIN rest |-> [k |-> rest[i].k, v |-> RemoveFirst(rest[i].v, n)]]

\* a copy of the mapping without a copy of its lists (deps[k] = v): the
\* working graph shares every list with the caller
SharedListsNoCopy(deps0) == KeySet(deps0)

\* line 775, deps[k] = v[:]: the keys whose list in the working graph is the
\* caller's own list object; every list is copied, so there is none
SharedLists(deps0) == {}

\* the caller's mapping after lines 811-816 removed node n from the working
\* graph: a list the two share loses its first n
CallerDeps(deps0, n) ==
    [i \in DOMAIN deps0 |->
        IF deps0[i].k \in SharedLists(deps0)
        THEN [k |-> deps0[i].k, v |-> RemoveFirst(deps0[i].v, n)]
        ELSE deps0[i]]

\* an iteration that takes the last ready node instead of the first
PickLastReady(deps, key) ==
    LET ready == Ready(deps)
    IN  IF key.given THEN Head(SortDesc(ready, key)) ELSE ready[Len(ready)]

\* the node one iteration of the while loop appends
Pick(deps, key) ==
    LET ready == Ready(deps)
    IN  IF key.given THEN Head(SortDesc(ready, key)) ELSE Head(ready)

\* an iteration that, finding no ready node, ends the loop instead of raising
LoopBodyBreak(deps, order, key) ==
    IF Ready(deps) = <<>>
    THEN [raised |-> FALSE, deps |-> <<>>, order |-> order]
    ELSE LET n == Pick(deps, key)
         IN  [raised |-> FALSE, deps |-> RemoveNode(deps, n), order |-> Append(order, n)]

\* an iteration that takes every ready node at once
LoopBodyAllReady(deps, order, key) ==
    IF Ready(deps) = <<>>
    THEN [raised |-> TRUE, deps |-> deps, order |-> order]
    ELSE LET ready == Ready(deps)
             rest  == SelectSeq(deps, LAMBDA e : Len(e.v) # 0)
         IN  [raised |-> FALSE,
              deps |-> [i \in DOMAIN rest |->
                          [k |-> rest[i].k,
                           v |-> SelectSeq(rest[i].v, LAMBDA x : x \notin Range(ready))]],
              order |-> order \o ready]

\* one iteration of the while loop
LoopBody(deps, order, key) ==
    IF Ready(deps) = <<>>
    THEN [raised |-> TRUE, deps |-> deps, order |-> order]
    ELSE LET n == Pick(deps, key)
         IN  [raised |-> FALSE, deps |-> RemoveNode(deps, n), order |-> Append(order, n)]

\* the while loop, run to its end
RECURSIVE Loop(_, _, _)
Loop(deps, order, key) ==
    IF Len(deps) = 0 THEN [raised |-> FALSE, order |-> order]
    ELSE LET r == LoopBody(deps, order, key)
         IN  IF r.raised THEN [raised |-> TRUE, order |-> <<>>]
             ELSE Loop(r.deps, r.order, key)

\* Manager.toposort(deps) without cost, as called by the cost pre-pass
ToposortPlain(deps0) == Loop(Normalize(deps0), <<>>, NoKey)

\* for n2 in deps.get(n, []): allDeps[n2] |= allDeps.get(n, set())
RECURSIVE Accumulate(_, _, _, _)
Accumulate(allDeps, n, v, j) ==
    IF j > Len(v) THEN allDeps
    ELSE Accumulate([allDeps EXCEPT ![v[j]] = @ \cup allDeps[n]], n, v, j + 1)

\* for n in order[::-1]: ...
RECURSIVE AllDepsFrom(_, _, _, _)
AllDepsFrom(allDeps, deps, order, i) ==
    IF i < 1 THEN allDeps
    ELSE AllDepsFrom(Accumulate(allDeps, order[i],
                                IF Has(deps, order[i]) THEN Get(deps, order[i]) ELSE <<>>, 1),
                     deps, order, i - 1)

AllDeps(deps, order) ==
    AllDepsFrom([n \in Range(order) |-> Chars(n)], deps, order, Len(order))

RECURSIVE SumCost(_, _)
SumCost(cost, S) ==
    IF S = {} THEN 0
    ELSE LET x == CHOOSE y \in S : TRUE
         IN  CostGet(cost, x) + SumCost(cost, S \ {x})

\* totalCost = {n: sum([cost.get(x, 0) for x in allDeps[n]]) for n in allDeps}
TotalCost(deps, order, cost) ==
    LET allDeps == AllDeps(deps, order)
    IN  [n \in DOMAIN allDeps |-> SumCost(cost, allDeps[n])]

\* Manager.toposort(deps, cost), run to its end
Toposort(deps0, cost) ==
    LET work == Normalize(deps0)
        pre  == ToposortPlain(work)
    IN  IF ~cost.given THEN Loop(work, <<>>, NoKey)
        ELSE IF pre.raised THEN [raised |-> TRUE, order |-> <<>>]
        ELSE Loop(work, <<>>, [given |-> TRUE, total |-> TotalCost(work, pre.order, cost)])

(***************************************************************************)
(* The Manager's module tree.                                              *)
(*                                                                         *)
(* The manager state handled by the operators below is a record            *)
(*   defined : category -> dict of instance name -> configuration entry    *)
(*   start   : "gui" / "logic" -> dict of instance name -> entry           *)
(*   loaded  : category -> dict of instance name -> instance (an index     *)
(*             into inst)                                                  *)
(*   config  : dict of every other top-level configuration key             *)
(*   inst    : the module instances created so far, in creation order      *)
(*   threads : the threads created by the thread manager, in order         *)
(*   baseDir, disableDevs, disableAllDevs : the attributes of that name    *)
(* An optional dict key is a sequence of length 0 (absent) or 1.           *)
(***************************************************************************)
Categories == {"hardware", "logic", "gui"}

StartCategories == {"gui", "logic"}

\* Python's None, where an instance may stand
None == 0

\* lines 74-89: the tree as __init__ lays it out
EmptyTree ==
    [defined |-> [c \in Categories |-> <<>>],
     start   |-> [c \in StartCategories |-> <<>>],
     loaded  |-> [c \in Categories |-> <<>>],
     config  |-> <<>>,
     inst    |-> <<>>,
     threads |-> <<>>,
     baseDir |-> "None",
     disableDevs    |-> {},
     disableAllDevs |-> FALSE]

\* a log entry of the logger
Err(msg) == [msgType |-> "error", msg |-> msg]

Status(msg) == [msgType |-> "status", msg |-> msg]

\* an entry written with print_logMsg
Message(msg) == [msgType |-> "message", msg |-> msg]

(***************************************************************************)
(* Configuration entries.  A connect value is a string, given as its       *)
(* sequence of tokens with "." a token of its own, or not a string.        *)
(***************************************************************************)
Str(tokens) == [str |-> TRUE, text |-> tokens]

NotAString == [str |-> FALSE, text |-> <<>>]

Entry(ref) == [mapping |-> TRUE, module |-> <<ref>>, connect |-> <<>>]

EntryConnect(ref, items) ==
    [mapping |-> TRUE, module |-> <<ref>>,
     connect |-> <<[ordered |-> TRUE, items |-> items]>>]

\* an entry that is a mapping without a 'module' key
EntryNoModule == [mapping |-> TRUE, module |-> <<>>, connect |-> <<>>]

\* a value of the config bag: a dict (its items) or anything else (val)
BagDict(items) == [dict |-> TRUE, items |-> items, val |-> ""]

BagValue(val) == [dict |-> FALSE, items |-> <<>>, val |-> val]

\* str.split('.'): the tokens between the dots, '' where two dots touch
RECURSIVE SplitFrom(_, _, _, _)
SplitFrom(text, i, cur, parts) ==
    IF i > Len(text) THEN Append(parts, cur)
    ELSE IF text[i] = "." THEN SplitFrom(text, i + 1, "", Append(parts, cur))
         ELSE SplitFrom(text, i + 1, text[i], parts)

Split(text) == SplitFrom(text, 1, "", <<>>)

(***************************************************************************)
(* The module classes the plugin packages offer.  For a module reference:  *)
(* whether its class derives from Base, whether its activation hook        *)
(* succeeds, and the connector table its instances declare.  A connector   *)
(* declaration says whether it is an OrderedDict, its 'class' value (if    *)
(* the key is there, with whether it is a string) and, for an in           *)
(* connector, whether it has an 'object' key (None on a new instance).     *)
(***************************************************************************)
InDecl(class) ==
    [dict |-> TRUE, class |-> <<[str |-> TRUE, name |-> class]>>, object |-> <<None>>]

OutDecl(class) ==
    [dict |-> TRUE, class |-> <<[str |-> TRUE, name |-> class]>>]

ModuleRefs == {"Src", "Proc", "Raw", "NotBase"}

IsBase(ref) == ref # "NotBase"

ActivationSucceeds(ref) == ref # "Raw"

ConnectorOf(ref) ==
    CASE ref = "Src" ->
            [in  |-> <<>>,
             out |-> << << [k |-> "out", v |-> OutDecl("I")] >> >>]
      [] ref = "Proc" ->
            [in  |-> << << [k |-> "c1", v |-> InDecl("I")],
                           [k |-> "c2", v |-> InDecl("J")] >> >>,
             out |-> << << [k |-> "out", v |-> OutDecl("K")] >> >>]
      [] ref = "Raw" ->
            [in  |-> << << [k |-> "c1", v |-> [dict |-> TRUE, class |-> <<>>,
                                               object |-> <<None>>]],
                           [k |-> "c2", v |-> InDecl("I")] >> >>,
             out |-> << << [k |-> "out", v |-> [dict |-> TRUE, class |-> <<>>]] >> >>]
      [] OTHER -> [in |-> <<>>, out |-> <<>>]

\* modclass(self, instanceName, configuration): a new, deactivated instance
NewInstance(ref, name) ==
    [class |-> ref, name |-> name, state |-> "deactivated",
     connector |-> ConnectorOf(ref), thread |-> <<>>]

(***************************************************************************)
(* Manager.configure.  Each operator returns the manager state reached,    *)
(* the log entries written and whether an exception left it.               *)
(***************************************************************************)
\* lines 418-432: os.path has no attribute dirName, so the call raises at
\* line 424 before baseDir is assigned
SetBaseDir(m, path) == [m |-> m, log |-> <<>>, signals |-> <<>>, raised |-> TRUE]

\* a definition loop that does not look at the disable options
RECURSIVE DefineEntriesIgnoringDisable(_, _, _, _, _)
DefineEntriesIgnoringDisable(m, cat, entries, i, log) ==
    IF i > Len(entries) THEN [m |-> m, log |-> log, raised |-> FALSE]
    ELSE LET name == entries[i].k
             e    == entries[i].v
         IN  IF ~e.mapping
             THEN [m |-> m, log |-> log, raised |-> TRUE]
             ELSE IF e.module # <<>>
             THEN DefineEntriesIgnoringDisable([m EXCEPT !.defined[cat] = Put(@, name, e)],
                                               cat, entries, i + 1, log)
             ELSE DefineEntriesIgnoringDisable(m, cat, entries, i + 1,
                                               Append(log, Message("no module")))

\* lines 275-282, 286-290, 294-298: the entries of one category
RECURSIVE DefineEntries(_, _, _, _, _)
DefineEntries(m, cat, entries, i, log) ==
    IF i > Len(entries) THEN [m |-> m, log |-> log, raised |-> FALSE]
    ELSE LET name == entries[i].k
             e    == entries[i].v
         IN  IF cat = "hardware" /\ (m.disableAllDevs \/ name \in m.disableDevs)
             THEN DefineEntries(m, cat, entries, i + 1, Append(log, Message("disabled")))
             ELSE IF ~e.mapping
             THEN [m |-> m, log |-> log, raised |-> TRUE]
             ELSE IF e.module # <<>>
             THEN DefineEntries([m EXCEPT !.defined[cat] = Put(@, name, e)],
                                cat, entries, i + 1, log)
             ELSE DefineEntries(m, cat, entries, i + 1, Append(log, Message("no module")))

\* lines 304-308, 310-314: the entries of one startup category
RECURSIVE StartEntries(_, _, _, _, _)
StartEntries(m, cat, entries, i, log) ==
    IF i > Len(entries) THEN [m |-> m, log |-> log, raised |-> FALSE]
    ELSE LET name == entries[i].k
             e    == entries[i].v
         IN  IF ~e.mapping
             THEN [m |-> m, log |-> log, raised |-> TRUE]
             ELSE IF e.module # <<>>
             THEN StartEntries([m EXCEPT !.start[cat] = Put(@, name, e)],
                               cat, entries, i + 1, log)
             ELSE StartEntries(m, cat, entries, i + 1, Append(log, Message("no module")))

\* lines 302-314: for skey in cfg['startup']
RECURSIVE Startup(_, _, _, _)
Startup(m, sections, i, log) ==
    IF i > Len(sections) THEN [m |-> m, log |-> log, raised |-> FALSE]
    ELSE IF sections[i].k \in StartCategories
         THEN LET r == StartEntries(m, sections[i].k, sections[i].v, 1, log)
              IN  IF r.raised THEN r ELSE Startup(r.m, sections, i + 1, r.log)
         ELSE Startup(m, sections, i + 1, log)

\* lines 318-324: for m in cfg['global']
RECURSIVE Global(_, _, _, _)
Global(m, options, i, log) ==
    IF i > Len(options) THEN [m |-> m, log |-> log, raised |-> FALSE]
    ELSE IF options[i].k = "storageDir"
         THEN LET r == SetBaseDir(m, options[i].v)
              IN  IF r.raised
                  THEN [m |-> r.m, log |-> Append(log, Message("base directory")),
                        raised |-> TRUE]
                  ELSE Global(r.m, options, i + 1, Append(log, Message("base directory")))
         ELSE IF options[i].k = "useOpenGL"
         THEN IF Has(options, "useOpenGl")
              THEN Global(m, options, i + 1, log)
              ELSE [m |-> m, log |-> log, raised |-> TRUE]
         ELSE Global(m, options, i + 1, log)

\* lines 332-333: for key2 in cfg[key]: self.tree['config'][key][key2] = ...
RECURSIVE Extend(_, _, _, _)
Extend(m, k, items, i) ==
    IF i > Len(items) THEN [m |-> m, log |-> <<>>, raised |-> FALSE]
    ELSE LET stored == Get(m.config, k)
         IN  IF ~stored.dict
             THEN [m |-> m, log |-> <<>>, raised |-> TRUE]
             ELSE Extend([m EXCEPT !.config =
                             Put(@, k, BagDict(Put(stored.items, items[i].k, items[i].v)))],
                         k, items, i + 1)

\* lines 329-335: any other top-level key
Other(m, k, value) ==
    IF value.dict
    THEN Extend(IF Has(m.config, k) THEN m
                ELSE [m EXCEPT !.config = Put(@, k, BagDict(<<>>))],
                k, value.items, 1)
    ELSE [m |-> [m EXCEPT !.config = Put(@, k, value)], log |-> <<>>, raised |-> FALSE]

\* a category section that replaces the stored definitions of the category
ConfigureKeyReplacing(m, k, value) ==
    CASE k \in Categories ->
            DefineEntries([m EXCEPT !.defined[k] = <<>>], k, value, 1, <<>>)
      [] k = "startup" -> Startup(m, value, 1, <<>>)
      [] k = "global" -> Global(m, value, 1, <<>>)
      [] OTHER -> Other(m, k, value)

\* lines 272-337: one top-level key, inside the try
ConfigureKey(m, k, value) ==
    CASE k \in Categories -> DefineEntries(m, k, value, 1, <<>>)
      [] k = "startup" -> Startup(m, value, 1, <<>>)
      [] k = "global" -> Global(m, value, 1, <<>>)
      [] OTHER -> Other(m, k, value)

\* a configure that lets the exception of a key leave the loop and the method
RECURSIVE ConfigureFromRaising(_, _, _, _)
ConfigureFromRaising(m, cfg, i, log) ==
    IF i > Len(cfg)
    THEN [m |-> m, log |-> log, signals |-> <<"sigConfigChanged">>, raised |-> "none",
          seen |-> <<[defined |-> m.defined, start |-> m.start, config |-> m.config]>>]
    ELSE LET r == ConfigureKey(m, cfg[i].k, cfg[i].v)
         IN  IF r.raised
             THEN [m |-> r.m, log |-> log \o r.log, signals |-> <<>>,
                   raised |-> "error", seen |-> <<>>]
             ELSE ConfigureFromRaising(r.m, cfg, i + 1, log \o r.log)

\* lines 271-339: for key in cfg: try ... except: printExc(...); then emit.
\* seen is, for the signal emitted, the tree at the time of its emission
RECURSIVE ConfigureFrom(_, _, _, _)
ConfigureFrom(m, cfg, i, log) ==
    IF i > Len(cfg)
    THEN [m |-> m, log |-> log, signals |-> <<"sigConfigChanged">>, raised |-> "none",
          seen |-> <<[defined |-> m.defined, start |-> m.start, config |-> m.config]>>]
    ELSE LET r == ConfigureKey(m, cfg[i].k, cfg[i].v)
         IN  ConfigureFrom(r.m, cfg, i + 1,
                           IF r.raised
                           THEN log \o r.log \o <<Err("Error in configuration")>>
                           ELSE log \o r.log)

Configure(m, cfg) == ConfigureFrom(m, cfg, 1, <<>>)

(***************************************************************************)
(* Manager.configureModule, in the three parts its two critical sections   *)
(* cut it into.                                                            *)
(***************************************************************************)
\* a check of the category alone, letting an existing name through
CMCheckCategoryOnly(m, baseName, instanceName) ==
    IF baseName \in Categories THEN "none" ELSE "category"

\* lines 476-483, under the lock: the name and category check
CMCheck(m, baseName, instanceName) ==
    IF baseName \in Categories
    THEN IF Has(m.loaded[baseName], instanceName) THEN "duplicate" ELSE "none"
    ELSE "category"

\* an instantiation that does not test the inheritance of the class
CMCreateAnyClass(m, ref, baseName, instanceName) ==
    [m |-> [m EXCEPT !.inst = Append(@, NewInstance(ref, instanceName))],
     raised |-> "none",
     instance |-> Len(m.inst) + 1]
\* lines 485-499, outside the lock: look the class up and instantiate it
CMCreate(m, ref, baseName, instanceName) ==
    IF ~IsBase(ref)
    THEN [m |-> m, raised |-> "inheritance", instance |-> None]
    ELSE [m |-> [m EXCEPT !.inst = Append(@, NewInstance(ref, instanceName))],
          raised |-> "none",
          instance |-> Len(m.inst) + 1]

\* a registration that emits sigModulesChanged before it stores the instance
CMRegisterEmitFirst(m, baseName, instanceName, instance) ==
    IF baseName \in Categories
    THEN [m |-> [m EXCEPT !.loaded[baseName] = Put(@, instanceName, instance)],
          raised |-> "none",
          signals |-> <<"sigModulesChanged">>,
          seen |-> <<m.loaded>>,
          ret |-> instance]
    ELSE [m |-> m, raised |-> "category", signals |-> <<>>, seen |-> <<>>,
          ret |-> None]

\* lines 501-509, under the lock again: store the instance, then emit.  seen
\* is, for each signal emitted, the loaded tables at the time of its emission
CMRegister(m, baseName, instanceName, instance) ==
    IF baseName \in Categories
    THEN LET stored == [m EXCEPT !.loaded[baseName] = Put(@, instanceName, instance)]
         IN  [m |-> stored,
              raised |-> "none",
              signals |-> <<"sigModulesChanged">>,
              seen |-> <<stored.loaded>>,
              ret |-> instance]
    ELSE [m |-> m, raised |-> "category", signals |-> <<>>, seen |-> <<>>,
          ret |-> None]

\* lines 475-509, run by one caller without interruption
ConfigureModule(m, ref, baseName, instanceName) ==
    LET chk == CMCheck(m, baseName, instanceName)
        new == CMCreate(m, ref, baseName, instanceName)
    IN  IF chk # "none"
        THEN [m |-> m, raised |-> chk, signals |-> <<>>, seen |-> <<>>, ret |-> None]
        ELSE IF new.raised # "none"
        THEN [m |-> m, raised |-> new.raised, signals |-> <<>>, seen |-> <<>>,
              ret |-> None]
        ELSE CMRegister(new.m, baseName, instanceName, new.instance)

(***************************************************************************)
(* Manager.connectModule                                                   *)
(***************************************************************************)
\* the instance loaded under a name
Loaded(m, base, name) == Get(m.loaded[base], name)

\* a test that the out connector is declared, whatever its class
OutputErrorDeclaredOnly(target, destcon) ==
    IF target.connector.out = <<>> THEN "no OUT connectors"
    ELSE LET outputs == target.connector.out[1]
         IN  IF ~Has(outputs, destcon) THEN "OUT connector not declared"
             ELSE "none"

\* lines 605-627: does the target declare the out connector with a class
OutputError(target, destcon) ==
    IF target.connector.out = <<>> THEN "no OUT connectors"
    ELSE LET outputs == target.connector.out[1]
         IN  IF ~Has(outputs, destcon) THEN "OUT connector not declared"
             ELSE IF ~Get(outputs, destcon).dict THEN "not a dict"
             ELSE IF Get(outputs, destcon).class = <<>> THEN "no class key in dict"
             ELSE IF ~Get(outputs, destcon).class[1].str THEN "class value no string"
             ELSE "none"

\* the in connector checks without the one for an object already set
InputErrorUnboundOrNot(connectorIn, c) ==
    IF ~Has(connectorIn, c) THEN "IN connector not declared"
    ELSE IF ~Get(connectorIn, c).dict THEN "No dict."
    ELSE IF Get(connectorIn, c).class = <<>> THEN "no class key"
    ELSE IF ~Get(connectorIn, c).class[1].str THEN "class is not a string"
    ELSE IF Get(connectorIn, c).object = <<>> THEN "no object key"
    ELSE "none"

\* lines 546-570: is the in connector declared, well formed and unbound
InputError(connectorIn, c) ==
    IF ~Has(connectorIn, c) THEN "IN connector not declared"
    ELSE IF ~Get(connectorIn, c).dict THEN "No dict."
    ELSE IF Get(connectorIn, c).class = <<>> THEN "no class key"
    ELSE IF ~Get(connectorIn, c).class[1].str THEN "class is not a string"
    ELSE IF Get(connectorIn, c).object = <<>> THEN "no object key"
    ELSE IF Get(connectorIn, c).object[1] # None THEN "already connected"
    ELSE "none"

\* a lookup that goes on to the gui modules
DestBaseAnyCategory(m, destmod) ==
    IF Has(m.loaded["hardware"], destmod) /\ Has(m.loaded["logic"], destmod)
    THEN "ambiguous"
    ELSE IF Has(m.loaded["hardware"], destmod) THEN "hardware"
    ELSE IF Has(m.loaded["logic"], destmod) THEN "logic"
    ELSE IF Has(m.loaded["gui"], destmod) THEN "gui"
    ELSE "not found"

\* a lookup that takes the hardware module when the name is loaded twice
DestBaseHardwareFirst(m, destmod) ==
    IF Has(m.loaded["hardware"], destmod) THEN "hardware"
    ELSE IF Has(m.loaded["logic"], destmod) THEN "logic"
    ELSE "not found"

\* lines 583-603: the category the target name is loaded under
DestBase(m, destmod) ==
    IF Has(m.loaded["hardware"], destmod) /\ Has(m.loaded["logic"], destmod)
    THEN "ambiguous"
    ELSE IF Has(m.loaded["hardware"], destmod) THEN "hardware"
    ELSE IF Has(m.loaded["logic"], destmod) THEN "logic"
    ELSE "not found"

\* a binding to the connecting module itself instead of the target
BindSelf(m, id, c, target) ==
    LET connectorIn == m.inst[id].connector.in[1]
        decl == Get(connectorIn, c)
    IN  [m EXCEPT !.inst[id].connector.in =
            <<Put(connectorIn, c, [decl EXCEPT !.object = <<id>>])>>]

\* a binding that replaces the declaration of the in connector by a new one
BindReplacingDeclaration(m, id, c, target) ==
    LET connectorIn == m.inst[id].connector.in[1]
    IN  [m EXCEPT !.inst[id].connector.in =
            <<Put(connectorIn, c, [dict |-> TRUE, class |-> <<>>, object |-> <<target>>])>>]

\* line 637: connectorIn[c]['object'] = self.tree['loaded'][destbase][destmod]
Bind(m, id, c, target) ==
    LET connectorIn == m.inst[id].connector.in[1]
        decl == Get(connectorIn, c)
    IN  [m EXCEPT !.inst[id].connector.in =
            <<Put(connectorIn, c, [decl EXCEPT !.object = <<target>>])>>]

\* a loop that goes on to the next entry after one that fails a check
RECURSIVE ConnectionsSkipFailing(_, _, _, _, _, _)
ConnectionsSkipFailing(m, base, mkey, connections, i, log) ==
    IF i > Len(connections) THEN [m |-> m, raised |-> "none", log |-> log]
    ELSE LET c  == connections[i].k
             to == connections[i].v
             id == Loaded(m, base, mkey)
             inErr == InputError(m.inst[id].connector.in[1], c)
             parts == Split(to.text)
             destbase == DestBase(m, parts[1])
             outErr == OutputError(m.inst[Loaded(m, destbase, parts[1])], parts[2])
         IN  IF inErr # "none"
             THEN ConnectionsSkipFailing(m, base, mkey, connections, i + 1,
                                         Append(log, Err(inErr)))
             ELSE IF ~to.str
             THEN [m |-> m, raised |-> "KeyError", log |-> log]
             ELSE IF "." \notin Range(to.text)
             THEN ConnectionsSkipFailing(m, base, mkey, connections, i + 1,
                                         Append(log, Err("no dot")))
             ELSE IF destbase \notin Categories
             THEN ConnectionsSkipFailing(m, base, mkey, connections, i + 1,
                                         Append(log, Err(destbase)))
             ELSE IF outErr # "none"
             THEN ConnectionsSkipFailing(m, base, mkey, connections, i + 1,
                                         Append(log, Err(outErr)))
             ELSE ConnectionsSkipFailing(Bind(m, id, c, Loaded(m, destbase, parts[1])),
                                         base, mkey, connections, i + 1,
                                         Append(log, Status("Connecting")))

\* lines 544-637: for c in connections
RECURSIVE Connections(_, _, _, _, _, _)
Connections(m, base, mkey, connections, i, log) ==
    IF i > Len(connections) THEN [m |-> m, raised |-> "none", log |-> log]
    ELSE LET c  == connections[i].k
             to == connections[i].v
             id == Loaded(m, base, mkey)
             inErr == InputError(m.inst[id].connector.in[1], c)
             parts == Split(to.text)
             destbase == DestBase(m, parts[1])
             outErr == OutputError(m.inst[Loaded(m, destbase, parts[1])], parts[2])
         IN  IF inErr # "none"
             THEN [m |-> m, raised |-> "none", log |-> Append(log, Err(inErr))]
             ELSE IF ~to.str
             THEN [m |-> m, raised |-> "KeyError", log |-> log]
             ELSE IF "." \notin Range(to.text)
             THEN [m |-> m, raised |-> "none", log |-> Append(log, Err("no dot"))]
             ELSE IF destbase \notin Categories
             THEN [m |-> m, raised |-> "none", log |-> Append(log, Err(destbase))]
             ELSE IF outErr # "none"
             THEN [m |-> m, raised |-> "none", log |-> Append(log, Err(outErr))]
             ELSE Connections(Bind(m, id, c, Loaded(m, destbase, parts[1])),
                              base, mkey, connections, i + 1,
                              Append(log, Status("Connecting")))

\* connectModule raising for a module that is not loaded
ConnectModuleLoadedOnly(m, base, mkey) ==
    IF base \notin Categories \/ ~Has(m.defined[base], mkey)
    THEN [m |-> m, raised |-> "KeyError", log |-> <<>>]
    ELSE LET thismodule == Get(m.defined[base], mkey)
         IN  IF ~Has(m.loaded[base], mkey)
             THEN [m |-> m, raised |-> "KeyError", log |-> <<>>]
             ELSE IF thismodule.connect = <<>>
             THEN [m |-> m, raised |-> "none", log |-> <<>>]
             ELSE IF m.inst[Loaded(m, base, mkey)].connector.in = <<>>
             THEN [m |-> m, raised |-> "none", log |-> <<Err("no IN connectors")>>]
             ELSE IF thismodule.module = <<>>
             THEN [m |-> m, raised |-> "KeyError", log |-> <<>>]
             ELSE IF ~thismodule.connect[1].ordered
             THEN [m |-> m, raised |-> "none", log |-> <<Err("connect is not a dict")>>]
             ELSE Connections(m, base, mkey, thismodule.connect[1].items, 1, <<>>)

\* lines 511-637
ConnectModule(m, base, mkey) ==
    IF base \notin Categories \/ ~Has(m.defined[base], mkey)
    THEN [m |-> m, raised |-> "KeyError", log |-> <<>>]
    ELSE LET thismodule == Get(m.defined[base], mkey)
         IN  IF ~Has(m.loaded[base], mkey)
             THEN [m |-> m, raised |-> "none", log |-> <<Err("not loaded")>>]
             ELSE IF thismodule.connect = <<>>
             THEN [m |-> m, raised |-> "none", log |-> <<>>]
             ELSE IF m.inst[Loaded(m, base, mkey)].connector.in = <<>>
             THEN [m |-> m, raised |-> "none", log |-> <<Err("no IN connectors")>>]
             ELSE IF thismodule.module = <<>>
             THEN [m |-> m, raised |-> "KeyError", log |-> <<>>]
             ELSE IF ~thismodule.connect[1].ordered
             THEN [m |-> m, raised |-> "none", log |-> <<Err("connect is not a dict")>>]
             ELSE Connections(m, base, mkey, thismodule.connect[1].items, 1, <<>>)

(***************************************************************************)
(* Manager.loadConfigureModule and Manager.activateModule                  *)
(***************************************************************************)
\* the module's activate(): the hook runs; the module reaches 'activated' if
\* it succeeds and keeps its state if it raises
Activate(m, id) ==
    IF ActivationSucceeds(m.inst[id].class)
    THEN [m |-> [m EXCEPT !.inst[id].state = "activated"], raised |-> FALSE]
    ELSE [m |-> m, raised |-> TRUE]

\* the thread manager's newThread(name): one more thread, not yet started
NewThread(threads, name) == Append(threads, [name |-> name, started |-> FALSE])

\* lines 656-658: a new thread for the module, started after the move
StartThread(m, base, k) ==
    LET name    == <<"mod", base, k>>
        created == NewThread(m.threads, name)
    IN  [m EXCEPT !.threads = [created EXCEPT ![Len(created)].started = TRUE],
                  !.inst[Loaded(m, base, k)].thread = <<name>>]

\* a load that starts a thread for a module of any category
LoadConfigureModuleThreadForAll(m, base, k) ==
    IF base \notin Categories \/ ~Has(m.defined[base], k)
    THEN [m |-> m, raised |-> "KeyError", log |-> <<>>, signals |-> <<>>]
    ELSE LET thismodule == Get(m.defined[base], k)
             r == ConfigureModule(m, thismodule.module[1], base, k)
         IN  IF thismodule.module = <<>>
             THEN [m |-> m, raised |-> "none", signals |-> <<>>,
                   log |-> <<Err("Not a loadable module")>>]
             ELSE IF r.raised # "none"
             THEN [m |-> r.m, raised |-> "none", signals |-> r.signals,
                   log |-> <<Err("Error while loading module")>>]
             ELSE [m |-> StartThread(r.m, base, k),
                   raised |-> "none", signals |-> r.signals, log |-> <<>>]

\* lines 639-665
LoadConfigureModule(m, base, k) ==
    IF base \notin Categories \/ ~Has(m.defined[base], k)
    THEN [m |-> m, raised |-> "KeyError", log |-> <<>>, signals |-> <<>>]
    ELSE LET thismodule == Get(m.defined[base], k)
             r == ConfigureModule(m, thismodule.module[1], base, k)
         IN  IF thismodule.module = <<>>
             THEN [m |-> m, raised |-> "none", signals |-> <<>>,
                   log |-> <<Err("Not a loadable module")>>]
             ELSE IF r.raised # "none"
             THEN [m |-> r.m, raised |-> "none", signals |-> r.signals,
                   log |-> <<Err("Error while loading module")>>]
             ELSE [m |-> IF base = "logic" THEN StartThread(r.m, base, k) ELSE r.m,
                   raised |-> "none", signals |-> r.signals, log |-> <<>>]

\* activateModule without the early return of lines 674-675
ActivateModuleNoStartupReturn(m, base, k) ==
    IF base \notin Categories \/ ~Has(m.loaded[base], k)
    THEN [m |-> m, raised |-> "KeyError", log |-> <<>>, hook |-> FALSE]
    ELSE LET id == Loaded(m, base, k)
             r  == Activate(m, id)
         IN  IF m.inst[id].state # "deactivated"
             THEN [m |-> m, raised |-> "none", hook |-> FALSE,
                   log |-> <<Err("not deactivated anymore")>>]
             ELSE IF r.raised
             THEN [m |-> r.m, raised |-> "none", hook |-> TRUE,
                   log |-> <<Err("error during activation")>>]
             ELSE [m |-> r.m, raised |-> "none", hook |-> TRUE, log |-> <<>>]

\* lines 667-684
ActivateModule(m, base, k) ==
    IF base \notin Categories \/ ~Has(m.loaded[base], k)
    THEN [m |-> m, raised |-> "KeyError", log |-> <<>>, hook |-> FALSE]
    ELSE LET id == Loaded(m, base, k)
             r  == Activate(m, id)
         IN  IF m.inst[id].state # "deactivated" /\ base \notin DOMAIN m.start
             THEN [m |-> m, raised |-> "KeyError", log |-> <<>>, hook |-> FALSE]
             ELSE IF m.inst[id].state # "deactivated" /\ Has(m.start[base], k)
             THEN [m |-> m, raised |-> "none", log |-> <<>>, hook |-> FALSE]
             ELSE IF m.inst[id].state # "deactivated"
             THEN [m |-> m, raised |-> "none", hook |-> FALSE,
                   log |-> <<Err("not deactivated anymore")>>]
             ELSE IF r.raised
             THEN [m |-> r.m, raised |-> "none", hook |-> TRUE,
                   log |-> <<Err("error during activation")>>]
             ELSE [m |-> r.m, raised |-> "none", hook |-> TRUE, log |-> <<>>]

(***************************************************************************)
(* Manager.startAllConfiguredModules.  The trace lists the calls the run   *)
(* makes, in order, with how each ended.                                   *)
(***************************************************************************)
\* the categories walked through from the gui modules down
StartOrderGuiFirst == <<"gui", "logic", "hardware">>

\* lines 692 and 706: for thing in ['hardware', 'logic', 'gui']
StartOrder == <<"hardware", "logic", "gui">>

\* lines 698-701: the defined logic modules, then the defined gui modules
WireOrder == <<"logic", "gui">>

\* the (category, key) pairs a loop over tree[thing], thing in cats, visits
RECURSIVE PairsOf(_, _, _)
PairsOf(tree, cats, i) ==
    IF i > Len(cats) THEN <<>>
    ELSE [j \in DOMAIN tree[cats[i]] |-> [base |-> cats[i], key |-> tree[cats[i]][j].k]]
         \o PairsOf(tree, cats, i + 1)

Event(op, p, raised, hook, failed) ==
    [op |-> op, base |-> p.base, key |-> p.key, raised |-> raised,
     hook |-> hook, failed |-> failed]

\* the run after one of its calls: it ends if the call raised, else goes on
\* with the rest (the result of the call, the event and what follows)
Ended(r, log, trace, e) ==
    [m |-> r.m, raised |-> r.raised, log |-> log \o r.log, trace |-> Append(trace, e)]

\* lines 692-694
RECURSIVE StartLoad(_, _, _, _, _)
LoadStep(r, todo, i, log, trace) ==
    IF r.raised # "none"
    THEN Ended(r, log, trace, Event("load", todo[i], r.raised, FALSE, r.log # <<>>))
    ELSE StartLoad(r.m, todo, i + 1, log \o r.log,
                   Append(trace, Event("load", todo[i], r.raised, FALSE, r.log # <<>>)))

StartLoad(m, todo, i, log, trace) ==
    IF i > Len(todo) THEN [m |-> m, raised |-> "none", log |-> log, trace |-> trace]
    ELSE LoadStep(LoadConfigureModule(m, todo[i].base, todo[i].key), todo, i, log, trace)

\* a call of connectModule logged an error
LoggedError(log) == \E j \in DOMAIN log : log[j].msgType = "error"

\* lines 698-701
RECURSIVE StartConnect(_, _, _, _, _)
ConnectStep(r, todo, i, log, trace) ==
    IF r.raised # "none"
    THEN Ended(r, log, trace, Event("connect", todo[i], r.raised, FALSE, LoggedError(r.log)))
    ELSE StartConnect(r.m, todo, i + 1, log \o r.log,
                      Append(trace, Event("connect", todo[i], r.raised, FALSE,
                                          LoggedError(r.log))))

StartConnect(m, todo, i, log, trace) ==
    IF i > Len(todo) THEN [m |-> m, raised |-> "none", log |-> log, trace |-> trace]
    ELSE ConnectStep(ConnectModule(m, todo[i].base, todo[i].key), todo, i, log, trace)

\* lines 706-708
RECURSIVE StartActivate(_, _, _, _, _)
ActivateStep(r, todo, i, log, trace) ==
    IF r.raised # "none"
    THEN Ended(r, log, trace, Event("activate", todo[i], r.raised, r.hook, r.log # <<>>))
    ELSE StartActivate(r.m, todo, i + 1, log \o r.log,
                       Append(trace, Event("activate", todo[i], r.raised, r.hook,
                                           r.log # <<>>)))

StartActivate(m, todo, i, log, trace) ==
    IF i > Len(todo) THEN [m |-> m, raised |-> "none", log |-> log, trace |-> trace]
    ELSE ActivateStep(ActivateModule(m, todo[i].base, todo[i].key), todo, i, log, trace)

\* lines 705-709: the activation loop and the closing message
ActivatePhase(c) ==
    IF c.raised # "none" THEN c
    ELSE StartActivate(c.m, PairsOf(c.m.loaded, StartOrder, 1), 1,
                       Append(c.log, Message("Activation starting!")), c.trace)

\* lines 696-701: the opening message and the wiring loop
ConnectPhase(l) ==
    IF l.raised # "none" THEN l
    ELSE StartConnect(l.m, PairsOf(l.m.defined, WireOrder, 1), 1,
                      Append(l.log, Message("Connecting ALL the things!!")), l.trace)

\* line 709
Finished(a) ==
    IF a.raised # "none" THEN a
    ELSE [a EXCEPT !.log = Append(@, Message("Activation finished."))]

\* lines 686-709
StartAllConfiguredModules(m) ==
    Finished(ActivatePhase(ConnectPhase(
        StartLoad(m, PairsOf(m.defined, StartOrder, 1), 1, <<>>, <<>>))))

(***************************************************************************)
(* Manager.__init__ with argv = None: read the configuration, then load    *)
(* and activate the startup gui modules.  An exception anywhere leaves the *)
(* loop and is printed (lines 204-207).                                    *)
(***************************************************************************)
\* lines 192-205
RECURSIVE StartupGui(_, _)
StartupGui(m, i) ==
    IF i > Len(m.start["gui"]) THEN m
    ELSE LET k == m.start["gui"][i].k
             r == ConfigureModule(m, m.start["gui"][i].v.module[1], "gui", k)
             a == Activate(r.m, Loaded(r.m, "gui", k))
         IN  IF r.raised # "none" THEN r.m
             ELSE IF a.raised THEN a.m
             ELSE StartupGui(a.m, i + 1)

\* lines 72-211
Construct(cfg) == StartupGui(Configure(EmptyTree, cfg).m, 1)

(***************************************************************************)
(* The AWG driver (hardware/AWG/Tektronix_AWG70k.py).  A string is the     *)
(* sequence of its pieces of text; carriage return and line feed are       *)
(* pieces of their own, and no other piece contains either.  The socket is *)
(* connected: it records what send is handed and recv returns what the     *)
(* instrument answered.                                                    *)
(***************************************************************************)
CR == "\r"

LF == "\n"

MaxCommandLen == 2

MaxReplyLen == 4

CommandChars == {"C", LF}

ReplyChars == {"2", "x", CR, LF}

Commands == SeqsUpTo(CommandChars, MaxCommandLen)

Replies == SeqsUpTo(ReplyChars, MaxReplyLen)

\* s.endswith('\n')
EndsWith(s, c) == Len(s) > 0 /\ s[Len(s)] = c

\* the first two statements of tell and of ask
WithLineFeedAlways(command) == Append(command, LF)
WithLineFeed(command) ==
    IF ~EndsWith(command, LF) THEN Append(command, LF) ELSE command

\* message.replace('\r\n', ''): one scan from the left, every occurrence found
\* is left out and the scan goes on behind it
RECURSIVE Replace(_)
Replace(message) ==
    IF Len(message) < 2 THEN message
    ELSE IF message[1] = CR /\ message[2] = LF
         THEN Replace(SubSeq(message, 3, Len(message)))
         ELSE <<message[1]>> \o Replace(Tail(message))

\* message.split('\r\n', 1)[0]
RECURSIVE SplitFirst(_)
SplitFirst(message) ==
    IF Len(message) < 2 THEN message
    ELSE IF message[1] = CR /\ message[2] = LF THEN <<>>
         ELSE <<message[1]>> \o SplitFirst(Tail(message))

Whitespace == {CR, LF}

DigitValue == [c \in {"2"} |-> 2]

RECURSIVE LStrip(_)
LStrip(s) == IF s # <<>> /\ s[1] \in Whitespace THEN LStrip(Tail(s)) ELSE s

RECURSIVE RStrip(_)
RStrip(s) ==
    IF s # <<>> /\ s[Len(s)] \in Whitespace THEN RStrip(SubSeq(s, 1, Len(s) - 1))
    ELSE s

RECURSIVE Digits(_, _)
Digits(s, acc) ==
    IF s = <<>> THEN acc ELSE Digits(Tail(s), 10 * acc + DigitValue[s[1]])

\* int(text): white space around the digits is skipped, anything else that is
\* not a digit, and a text without digits, raise ValueError
int(text) ==
    LET body == RStrip(LStrip(text))
    IN  IF body # <<>> /\ \A i \in 1..Len(body) : body[i] \in DOMAIN DigitValue
        THEN [raised |-> "none", value |-> Digits(body, 0)]
        ELSE [raised |-> "ValueError", value |-> None]

NoTraffic == [sent |-> <<>>, reply |-> <<>>]

\* self.soc.send(data)
Send(s, data) == [s EXCEPT !.sent = Append(@, data)]

\* self.soc.recv(self.input_buffer)
Recv(s) == s.reply

Tell(s, command) ==
    [soc |-> Send(s, WithLineFeed(command)), raised |-> "none", ret |-> None]

Ask(s, question) ==
    LET s1 == Send(s, WithLineFeed(question))
        message == Recv(s1)
    IN  [soc |-> s1, raised |-> "none", ret |-> Replace(message)]

GetStatusRaising(s) ==
    LET s1 == Send(s, <<"AWGC:RSTate?", LF>>)
        n == int(SplitFirst(Recv(s1)))
    IN  [soc |-> s1, raised |-> n.raised, ret |-> n.value]
GetStatus(s) ==
    LET s1 == Send(s, <<"AWGC:RSTate?", LF>>)
        n == int(SplitFirst(Recv(s1)))
    IN  IF n.raised = "none"
        THEN [soc |-> s1, raised |-> "none", ret |-> n.value]
        ELSE [soc |-> s1, raised |-> "none", ret |-> -1]

(***************************************************************************)
(* State.                                                                  *)
(***************************************************************************)
VARIABLES
    deps0,      \* toposort: the caller's deps argument
    cost,       \* toposort: the caller's cost argument (NoCost for None)
    deps,       \* toposort: the working copy of the graph
    key,        \* toposort: the sort key built from totalCost (NoKey for None)
    order,      \* toposort: the local list the loop appends to
    tpc,        \* toposort: "start", "loop", "done" (returned), "raised"
    ret,        \* toposort: the value returned to the caller, if any
    defined,    \* self.tree['defined']
    start,      \* self.tree['start']
    loaded,     \* self.tree['loaded']
    config,     \* self.tree['config']
    inst,       \* the module instances created so far
    threads,    \* the threads the thread manager has created
    baseDir,    \* self.baseDir
    disableDevs,    \* self.disableDevs
    disableAllDevs, \* self.disableAllDevs
    call,       \* the last call of the single caller, with what it returned,
                \* raised, logged and emitted
    cm,         \* per concurrent caller of configureModule: where it stands,
                \* its arguments, its instance and how its last call ended
    soc,        \* AWG: self.soc, what the last call sent and was answered
    awg         \* AWG: the last call to the driver, with what it returned

tvars == <<deps0, cost, deps, key, order, tpc, ret>>

avars == <<soc, awg>>

mvars == <<defined, start, loaded, config, inst, threads, baseDir,
           disableDevs, disableAllDevs>>

vars == <<deps0, cost, deps, key, order, tpc, ret,
          defined, start, loaded, config, inst, threads, baseDir,
          disableDevs, disableAllDevs, call, cm, avars>>

\* the manager state as the record the operators work on
Mgr ==
    [defined |-> defined, start |-> start, loaded |-> loaded, config |-> config,
     inst |-> inst, threads |-> threads, baseDir |-> baseDir,
     disableDevs |-> disableDevs, disableAllDevs |-> disableAllDevs]

IsMgr(m) ==
    /\ defined = m.defined
    /\ start = m.start
    /\ loaded = m.loaded
    /\ config = m.config
    /\ inst = m.inst
    /\ threads = m.threads
    /\ baseDir = m.baseDir
    /\ disableDevs = m.disableDevs
    /\ disableAllDevs = m.disableAllDevs

BecomesMgr(m) ==
    /\ defined' = m.defined
    /\ start' = m.start
    /\ loaded' = m.loaded
    /\ config' = m.config
    /\ inst' = m.inst
    /\ threads' = m.threads
    /\ baseDir' = m.baseDir
    /\ disableDevs' = m.disableDevs
    /\ disableAllDevs' = m.disableAllDevs

Callers == {"t1", "t2"}

NoCall ==
    [tick |-> FALSE, op |-> "none", base |-> "", key |-> "", raised |-> "none",
     log |-> <<>>, signals |-> <<>>, hook |-> FALSE, ret |-> None, trace |-> <<>>,
     cfg |-> <<>>, seen |-> <<>>]

Idle == [pc |-> "idle", base |-> "", name |-> "", ref |-> "", instance |-> None,
         result |-> "none", ret |-> None]

NoAwgCall ==
    [tick |-> FALSE, op |-> "none", arg |-> <<>>, raised |-> "none", ret |-> None]

\* the AWG variables while the driver is not called
AwgUnused ==
    /\ soc = NoTraffic
    /\ awg = NoAwgCall

\* the toposort variables while no toposort call is modelled
TopoUnused ==
    /\ deps0 = <<>>
    /\ cost = NoCost
    /\ deps = <<>>
    /\ key = NoKey
    /\ order = <<>>
    /\ tpc = "unused"
    /\ ret = [returned |-> FALSE, value |-> <<>>]

\* the manager variables while only toposort is modelled
ManagerUnused ==
    /\ IsMgr(EmptyTree)
    /\ call = NoCall
    /\ cm = [t \in Callers |-> Idle]

(***************************************************************************)
(* Inputs of toposort: every mapping with at most MaxKeys keys over        *)
(* NodeNames whose lists have at most MaxDepLen elements, every partial    *)
(* cost mapping with values up to MaxCost, the docstring example, and a    *)
(* mapping with three keys.                                                *)
(***************************************************************************)
DepLists == SeqsUpTo(NodeNames, MaxDepLen)

DepsInputs ==
    {d \in SeqsUpTo([k : NodeNames, v : DepLists], MaxKeys) : DistinctKeys(d)}

CostInputs ==
    {NoCost} \cup
    {[given |-> TRUE, map |-> f] :
        f \in UNION {[D -> 0..MaxCost] : D \in SUBSET NodeNames}}

\* deps = {'a': ['b', 'c'], 'c': ['b', 'd'], 'e': ['b']}
DocDeps ==
    << [k |-> "a", v |-> <<"b", "c">>],
       [k |-> "c", v |-> <<"b", "d">>],
       [k |-> "e", v |-> <<"b">>] >>

\* cost = {'a': 0, 'b': 0, 'c': 1, 'e': 1, 'd': 3}
DocCost ==
    [given |-> TRUE,
     map |-> [n \in {"a", "b", "c", "d", "e"} |->
                CASE n = "c" -> 1 [] n = "e" -> 1 [] n = "d" -> 3 [] OTHER -> 0]]

\* a key, c, that an earlier key refers to: {'a': ['c'], 'b': [], 'c': []}
DepsKeyReferenced ==
    << [k |-> "a", v |-> <<"c">>],
       [k |-> "b", v |-> <<>>],
       [k |-> "c", v |-> <<>>] >>

TopoInit ==
    /\ \/ deps0 \in DepsInputs /\ cost \in CostInputs
       \/ deps0 = DocDeps /\ cost \in {NoCost, DocCost}
       \/ deps0 = DepsKeyReferenced /\ cost = NoCost
    /\ deps = <<>>
    /\ key = NoKey
    /\ order = <<>>
    /\ tpc = "start"
    /\ ret = [returned |-> FALSE, value |-> <<>>]
    /\ ManagerUnused
    /\ AwgUnused

\* lines 771-790: copy and normalise deps, then the cost pre-pass
TopoPrepare ==
    /\ tpc = "start"
    /\ LET work == Normalize(deps0)
           pre == ToposortPlain(work)
       IN  /\ deps' = work
           /\ IF ~cost.given
              THEN key' = NoKey /\ tpc' = "loop"
              ELSE IF pre.raised
                   THEN key' = NoKey /\ tpc' = "raised"
                   ELSE /\ key' = [given |-> TRUE, total |-> TotalCost(work, pre.order, cost)]
                        /\ tpc' = "loop"
    /\ UNCHANGED <<deps0, cost, order, ret, mvars, call, cm, avars>>

\* lines 794-816: one iteration of the while loop
TopoIterate ==
    /\ tpc = "loop"
    /\ Len(deps) > 0
    /\ LET r == LoopBody(deps, order, key)
       IN  IF r.raised
           THEN tpc' = "raised" /\ UNCHANGED <<deps0, deps, order>>
           ELSE /\ tpc' = "loop"
                /\ deps' = r.deps
                /\ order' = r.order
                /\ deps0' = CallerDeps(deps0, r.order[Len(r.order)])
    /\ UNCHANGED <<cost, key, ret, mvars, call, cm, avars>>

\* line 818: return order
TopoReturn ==
    /\ tpc = "loop"
    /\ Len(deps) = 0
    /\ tpc' = "done"
    /\ ret' = [returned |-> TRUE, value |-> order]
    /\ UNCHANGED <<deps0, cost, deps, key, order, mvars, call, cm, avars>>

TopoNext == TopoPrepare \/ TopoIterate \/ TopoReturn

SpecTopo == TopoInit /\ [][TopoNext]_vars

(***************************************************************************)
(* The configuration files the manager is constructed from.                *)
(***************************************************************************)
\* x feeds y; y also asks for a module nobody defines; y is a startup logic
CfgBasic ==
    << [k |-> "hardware", v |-> << [k |-> "x", v |-> Entry("Src")] >>],
       [k |-> "logic", v |->
            << [k |-> "y", v |-> EntryConnect("Proc",
                    << [k |-> "c1", v |-> Str(<<"x", ".", "out">>)],
                       [k |-> "c2", v |-> Str(<<"z", ".", "out">>)] >>)] >>],
       [k |-> "gui", v |-> << [k |-> "x", v |-> Entry("NotBase")] >>],
       [k |-> "startup", v |->
            << [k |-> "logic", v |-> << [k |-> "y", v |-> Entry("Proc")] >>] >>] >>

\* the name x is used for a hardware and for a logic module; y is a startup gui
\* that also asks for itself, a gui module
CfgSameName ==
    << [k |-> "hardware", v |-> << [k |-> "x", v |-> Entry("Src")] >>],
       [k |-> "logic", v |-> << [k |-> "x", v |-> Entry("Src")] >>],
       [k |-> "gui", v |->
            << [k |-> "y", v |-> EntryConnect("Proc",
                    << [k |-> "c1", v |-> Str(<<"x", ".", "out">>)],
                       [k |-> "c2", v |-> Str(<<"y", ".", "out">>)] >>)] >>],
       [k |-> "startup", v |->
            << [k |-> "gui", v |-> << [k |-> "y", v |-> Entry("Proc")] >>] >>] >>

\* y declares c1 without a class and its out connector without a class
CfgUndeclared ==
    << [k |-> "hardware", v |-> << [k |-> "x", v |-> Entry("Src")] >>],
       [k |-> "logic", v |->
            << [k |-> "y", v |-> EntryConnect("Raw",
                    << [k |-> "c1", v |-> Str(<<"x", ".", "out">>)],
                       [k |-> "c2", v |-> Str(<<"x", ".", "out">>)] >>)] >>],
       [k |-> "gui", v |->
            << [k |-> "x", v |-> EntryConnect("Proc",
                    << [k |-> "c2", v |-> Str(<<"y", ".", "out">>)],
                       [k |-> "c1", v |-> Str(<<"x", ".", "out">>)] >>)] >>] >>

\* hardware x has an activation hook that fails and hardware y follows it;
\* gui x asks for a connector c9 that its class does not declare
CfgFailingHook ==
    << [k |-> "hardware", v |-> << [k |-> "x", v |-> Entry("Raw")],
                                   [k |-> "y", v |-> Entry("Src")] >>],
       [k |-> "logic", v |-> << [k |-> "y", v |-> Entry("NotBase")] >>],
       [k |-> "gui", v |->
            << [k |-> "x", v |-> EntryConnect("Proc",
                    << [k |-> "c1", v |-> Str(<<"y", ".", "out">>)],
                       [k |-> "c9", v |-> Str(<<"y", ".", "out">>)] >>)] >>] >>

\* connect values that are not "module.connector": a value that is not a
\* string (logic y) and a string without a dot (gui y); hardware x has a
\* connect section although its class declares no in connectors
CfgMalformed ==
    << [k |-> "hardware", v |->
            << [k |-> "x", v |-> EntryConnect("Src",
                    << [k |-> "c1", v |-> Str(<<"y", ".", "out">>)] >>)] >>],
       [k |-> "logic", v |->
            << [k |-> "y", v |-> EntryConnect("Proc",
                    << [k |-> "c1", v |-> NotAString] >>)] >>],
       [k |-> "gui", v |->
            << [k |-> "y", v |-> EntryConnect("Proc",
                    << [k |-> "c1", v |-> Str(<<"x">>)],
                       [k |-> "c2", v |-> Str(<<"x", ".", "out">>)] >>)] >>] >>

\* the name x is used for a hardware and for a logic module; logic x asks for
\* x on a connector declared without class, and gui y asks for x after a
\* module nobody defines
CfgAmbiguous ==
    << [k |-> "hardware", v |-> << [k |-> "x", v |-> Entry("Src")] >>],
       [k |-> "logic", v |->
            << [k |-> "x", v |-> EntryConnect("Raw",
                    << [k |-> "c1", v |-> Str(<<"x", ".", "out">>)] >>)] >>],
       [k |-> "gui", v |->
            << [k |-> "y", v |-> EntryConnect("Proc",
                    << [k |-> "c2", v |-> Str(<<"z", ".", "out">>)],
                       [k |-> "c1", v |-> Str(<<"x", ".", "out">>)] >>)] >>] >>

\* y asks for x.out, declared with class I, on its in connector c2, declared
\* with class J
CfgMismatch ==
    << [k |-> "hardware", v |-> << [k |-> "x", v |-> Entry("Src")] >>],
       [k |-> "logic", v |->
            << [k |-> "y", v |-> EntryConnect("Proc",
                    << [k |-> "c2", v |-> Str(<<"x", ".", "out">>)] >>)] >>] >>

ConfigFiles ==
    {CfgBasic, CfgSameName, CfgUndeclared, CfgFailingHook, CfgMalformed, CfgAmbiguous,
     CfgMismatch}

InstanceNames == {"x", "y"}

(***************************************************************************)
(* The single caller: any of the manager's operations, in any order.       *)
(***************************************************************************)
ManagerInit ==
    /\ \E cfg \in ConfigFiles : IsMgr(Construct(cfg))
    /\ call = NoCall
    /\ cm = [t \in Callers |-> Idle]
    /\ TopoUnused
    /\ AwgUnused

Returned(op, base, k, r) ==
    [tick |-> ~call.tick, op |-> op, base |-> base, key |-> k, raised |-> r.raised,
     log |-> r.log, signals |-> r.signals, hook |-> r.hook, ret |-> r.ret,
     trace |-> IF "trace" \in DOMAIN r THEN r.trace ELSE <<>>,
     cfg |-> IF "cfg" \in DOMAIN r THEN r.cfg ELSE <<>>,
     seen |-> IF "seen" \in DOMAIN r THEN r.seen ELSE <<>>]

\* configureModule(modObj, base, className, key, configuration) for a defined
\* module, or with a category that does not exist
CallConfigureModule ==
    \E base \in Categories \cup {"other"}, k \in InstanceNames, ref \in ModuleRefs :
        /\ base \in Categories => /\ Has(defined[base], k)
                                  /\ ref = Get(defined[base], k).module[1]
        /\ base \notin Categories => ref = "Src"
        /\ LET r == ConfigureModule(Mgr, ref, base, k)
           IN  /\ BecomesMgr(r.m)
               /\ call' = Returned("configureModule", base, k,
                                   [raised |-> r.raised, log |-> <<>>,
                                    signals |-> r.signals, hook |-> FALSE, ret |-> r.ret,
                                    seen |-> r.seen])
        /\ UNCHANGED <<tvars, cm, avars>>

CallLoadConfigureModule ==
    \E base \in Categories, k \in InstanceNames :
        /\ LET r == LoadConfigureModule(Mgr, base, k)
           IN  /\ BecomesMgr(r.m)
               /\ call' = Returned("loadConfigureModule", base, k,
                                   [raised |-> r.raised, log |-> r.log,
                                    signals |-> r.signals, hook |-> FALSE, ret |-> None])
        /\ UNCHANGED <<tvars, cm, avars>>

CallConnectModule ==
    \E base \in Categories, k \in InstanceNames :
        /\ LET r == ConnectModule(Mgr, base, k)
           IN  /\ BecomesMgr(r.m)
               /\ call' = Returned("connectModule", base, k,
                                   [raised |-> r.raised, log |-> r.log,
                                    signals |-> <<>>, hook |-> FALSE, ret |-> None])
        /\ UNCHANGED <<tvars, cm, avars>>

CallActivateModule ==
    \E base \in Categories, k \in InstanceNames :
        /\ LET r == ActivateModule(Mgr, base, k)
           IN  /\ BecomesMgr(r.m)
               /\ call' = Returned("activateModule", base, k,
                                   [raised |-> r.raised, log |-> r.log,
                                    signals |-> <<>>, hook |-> r.hook, ret |-> None])
        /\ UNCHANGED <<tvars, cm, avars>>

CallStartAllConfiguredModules ==
    /\ LET r == StartAllConfiguredModules(Mgr)
       IN  /\ BecomesMgr(r.m)
           /\ call' = Returned("startAllConfiguredModules", "", "",
                               [raised |-> r.raised, log |-> r.log, signals |-> <<>>,
                                hook |-> FALSE, ret |-> None, trace |-> r.trace])
    /\ UNCHANGED <<tvars, cm, avars>>

Next ==
    \/ CallConfigureModule
    \/ CallLoadConfigureModule
    \/ CallConnectModule
    \/ CallActivateModule
    \/ CallStartAllConfiguredModules

Spec == ManagerInit /\ [][Next]_vars

(***************************************************************************)
(* Two concurrent callers of configureModule.  The lock makes each of the  *)
(* two critical sections one step; nothing orders the callers between them. *)
(***************************************************************************)
\* lines 475-483: enter, take the lock, check, release
RaceCheck(t) ==
    /\ cm[t].pc = "idle"
    /\ \E base \in Categories \cup {"other"}, k \in InstanceNames, ref \in ModuleRefs :
        /\ base \in Categories => /\ Has(defined[base], k)
                                  /\ ref = Get(defined[base], k).module[1]
        /\ base \notin Categories => ref = "Src"
        /\ LET chk == CMCheck(Mgr, base, k)
           IN  cm' = [cm EXCEPT ![t] =
                        [pc |-> IF chk = "none" THEN "create" ELSE "idle",
                         base |-> base, name |-> k, ref |-> ref, instance |-> None,
                         result |-> chk, ret |-> None]]
    /\ UNCHANGED <<tvars, mvars, call, avars>>

\* lines 485-499: instantiate, holding no lock
RaceCreate(t) ==
    /\ cm[t].pc = "create"
    /\ LET r == CMCreate(Mgr, cm[t].ref, cm[t].base, cm[t].name)
       IN  /\ BecomesMgr(r.m)
           /\ cm' = [cm EXCEPT ![t].pc = IF r.raised = "none" THEN "register" ELSE "idle",
                               ![t].instance = r.instance,
                               ![t].result = r.raised]
    /\ UNCHANGED <<tvars, call, avars>>

\* lines 501-509: take the lock, store, release, emit, return
RaceRegister(t) ==
    /\ cm[t].pc = "register"
    /\ LET r == CMRegister(Mgr, cm[t].base, cm[t].name, cm[t].instance)
       IN  /\ BecomesMgr(r.m)
           /\ cm' = [cm EXCEPT ![t].pc = "idle",
                               ![t].result = IF r.raised = "none" THEN "returned"
                                             ELSE r.raised,
                               ![t].ret = r.ret]
    /\ UNCHANGED <<tvars, call, avars>>

RaceNext == \E t \in Callers : RaceCheck(t) \/ RaceCreate(t) \/ RaceRegister(t)

SpecRace == ManagerInit /\ [][RaceNext]_vars

(***************************************************************************)
(* The caller of configure: the manager as __init__ leaves it before any   *)
(* configuration is read, with the disable options of the command line,    *)
(* then configure() with any of the documents, any number of times.        *)
(***************************************************************************)
\* an entry whose value is not a container (a number, None): the test
\* 'module' in entry raises TypeError
EntryNotIterable == [mapping |-> FALSE, module |-> <<>>, connect |-> <<>>]

EntryKinds == {Entry("Src"), Entry("Proc"), EntryNoModule, EntryNotIterable}

\* a hardware section with one or two entries of any kind
HardwareDocs ==
    {<< [k |-> "hardware", v |-> es] >> :
        es \in {d \in SeqsUpTo([k : InstanceNames, v : EntryKinds], 2) :
                    d # <<>> /\ DistinctKeys(d)}}

\* logic, gui and startup sections, with an entry lacking 'module'
DocModules ==
    << [k |-> "logic", v |-> << [k |-> "x", v |-> Entry("Proc")],
                                [k |-> "y", v |-> EntryNoModule] >>],
       [k |-> "gui", v |-> << [k |-> "y", v |-> Entry("Proc")] >>],
       [k |-> "startup", v |->
            << [k |-> "gui", v |-> << [k |-> "y", v |-> Entry("Proc")],
                                      [k |-> "x", v |-> EntryNoModule] >>],
               [k |-> "logic", v |-> << [k |-> "x", v |-> Entry("Proc")] >>] >>] >>

\* the same names with other definitions; an entry that is not a container
\* comes first in the gui section
DocModulesAgain ==
    << [k |-> "gui", v |-> << [k |-> "x", v |-> EntryNotIterable],
                              [k |-> "y", v |-> Entry("Src")] >>],
       [k |-> "logic", v |-> << [k |-> "y", v |-> Entry("Src")],
                                [k |-> "x", v |-> Entry("Src")] >>],
       [k |-> "startup", v |->
            << [k |-> "logic", v |-> << [k |-> "x", v |-> EntryNoModule],
                                        [k |-> "y", v |-> Entry("Src")] >>] >>] >>

\* a global section with a storage directory, and a scalar option
DocGlobal ==
    << [k |-> "global", v |-> << [k |-> "storageDir", v |-> "dir"] >>],
       [k |-> "opt", v |-> BagValue("v")] >>

\* an option that is a mapping
DocOptionMapping ==
    << [k |-> "opt", v |-> BagDict(<< [k |-> "a", v |-> "1"] >>)] >>

\* the same option with one key changed and one added
DocOptionMappingAgain ==
    << [k |-> "opt", v |-> BagDict(<< [k |-> "b", v |-> "1"],
                                      [k |-> "a", v |-> "2"] >>)] >>

ConfigDocs ==
    HardwareDocs \cup {DocModules, DocModulesAgain, DocGlobal, DocOptionMapping,
                       DocOptionMappingAgain}

\* -d x and -D on the command line
DisableOptions ==
    {[devs |-> {}, all |-> FALSE], [devs |-> {"x"}, all |-> FALSE],
     [devs |-> {}, all |-> TRUE]}

ConfigInit ==
    /\ \E o \in DisableOptions :
          IsMgr([EmptyTree EXCEPT !.disableDevs = o.devs, !.disableAllDevs = o.all])
    /\ call = NoCall
    /\ cm = [t \in Callers |-> Idle]
    /\ TopoUnused
    /\ AwgUnused

CallConfigure ==
    \E cfg \in ConfigDocs :
        /\ LET r == Configure(Mgr, cfg)
           IN  /\ BecomesMgr(r.m)
               /\ call' = Returned("configure", "", "",
                                   [raised |-> r.raised, log |-> r.log,
                                    signals |-> r.signals, hook |-> FALSE,
                                    ret |-> None, cfg |-> cfg, seen |-> r.seen])
        /\ UNCHANGED <<tvars, cm, avars>>

SpecConfig == ConfigInit /\ [][CallConfigure]_vars

(***************************************************************************)
(* The AWG driver and its caller: tell, ask and get_status in any order,   *)
(* with any command and any answer of the instrument.  soc holds the       *)
(* traffic of the last call.                                               *)
(***************************************************************************)
AwgInit ==
    /\ AwgUnused
    /\ TopoUnused
    /\ ManagerUnused

AwgReturned(op, arg, r) ==
    [tick |-> ~awg.tick, op |-> op, arg |-> arg, raised |-> r.raised, ret |-> r.ret]

CallTell ==
    \E command \in Commands :
        /\ LET r == Tell(NoTraffic, command)
           IN  /\ soc' = r.soc
               /\ awg' = AwgReturned("tell", command, r)
        /\ UNCHANGED <<tvars, mvars, call, cm>>

CallAsk ==
    \E question \in Commands, reply \in Replies :
        /\ LET r == Ask([NoTraffic EXCEPT !.reply = reply], question)
           IN  /\ soc' = r.soc
               /\ awg' = AwgReturned("ask", question, r)
        /\ UNCHANGED <<tvars, mvars, call, cm>>

CallGetStatus ==
    \E reply \in Replies :
        /\ LET r == GetStatus([NoTraffic EXCEPT !.reply = reply])
           IN  /\ soc' = r.soc
               /\ awg' = AwgReturned("get_status", <<>>, r)
        /\ UNCHANGED <<tvars, mvars, call, cm>>

AwgNext == CallTell \/ CallAsk \/ CallGetStatus

SpecAwg == AwgInit /\ [][AwgNext]_vars

(***************************************************************************)
(* Graph notions used to state the properties of toposort, defined on the  *)
(* caller's mapping and independent of the algorithm.                      *)
(***************************************************************************)
DependsOn(d, n) == IF Has(d, n) THEN Range(Get(d, n)) ELSE {}

Nodes(d) == KeySet(d) \cup UNION {Range(d[i].v) : i \in DOMAIN d}

RECURSIVE Closure(_, _)
Closure(d, S) ==
    LET T == S \cup UNION {DependsOn(d, n) : n \in S}
    IN  IF T = S THEN S ELSE Closure(d, T)

Cyclic(d) == \E n \in Nodes(d) : n \in Closure(d, DependsOn(d, n))

ExactlyOnce(s, S) == Range(s) = S /\ Len(s) = Cardinality(S)

AfterDependencies(s, d) ==
    \A i \in DOMAIN s : \A m \in DependsOn(d, s[i]) : \E j \in 1..(i - 1) : s[j] = m

TopologicalOrder(s, d) == ExactlyOnce(s, Nodes(d)) /\ AfterDependencies(s, d)

(***************************************************************************)
(* C1: for every acyclic deps, toposort(deps) returns a sequence holding   *)
(* every node of deps (key or dependency) exactly once, each node after    *)
(* all of its dependencies.                                                *)
(***************************************************************************)
C1_AcyclicGivesTopologicalOrder ==
    (~Cyclic(deps0) /\ ~cost.given) =>
        /\ tpc # "raised"
        /\ tpc = "done" => TopologicalOrder(ret.value, deps0)

(***************************************************************************)
(* C2: for every deps with a cycle (a self-dependency included) toposort   *)
(* ends by raising and returns nothing, not even the nodes it had already  *)
(* resolved.                                                               *)
(***************************************************************************)
C2_CycleRaisesWithoutOrder ==
    Cyclic(deps0) =>
        /\ tpc # "done"
        /\ ~ret.returned
        /\ (tpc = "loop" => Len(deps) > 0)

C2_Witness ==
    /\ Cyclic(deps0)
    /\ tpc = "raised"
    /\ order # <<>>
    /\ ~ret.returned

(***************************************************************************)
(* C3: for the docstring's deps and cost, toposort returns                 *)
(* ['d', 'b', 'c', 'e', 'a'].                                              *)
(***************************************************************************)
C3_DocstringExample ==
    (deps0 = DocDeps /\ cost = DocCost /\ tpc \notin {"start", "loop"}) =>
        /\ tpc = "done"
        /\ ret.value = <<"d", "b", "c", "e", "a">>

C3_Witness ==
    /\ deps0 = DocDeps
    /\ cost = DocCost
    /\ tpc = "done"
    /\ ret.value[1] = "d"
    /\ ret.value[2] = "b"

(***************************************************************************)
(* C4: for every acyclic deps and every cost, toposort(deps, cost) returns *)
(* a valid topological order over the same node set as toposort(deps).     *)
(***************************************************************************)
C4_CostKeepsTopologicalOrder ==
    (~Cyclic(deps0) /\ cost.given) =>
        /\ tpc # "raised"
        /\ tpc = "done" =>
              /\ TopologicalOrder(ret.value, deps0)
              /\ ~ToposortPlain(deps0).raised
              /\ Range(ret.value) = Range(ToposortPlain(deps0).order)

(***************************************************************************)
(* Notions used to state the properties of the registry, written from the  *)
(* state alone.                                                            *)
(***************************************************************************)
\* this step is a call of op by the single caller
IsCall(op) == call'.tick # call.tick /\ call'.op = op

\* this step is a call of op on a loaded module
IsCallOnLoaded(op) ==
    /\ IsCall(op)
    /\ call'.base \in Categories
    /\ Has(loaded[call'.base], call'.key)

\* the connect section of a defined module, as a list of local -> value
ConnectOf(base, k) ==
    IF Has(defined[base], k) /\ Get(defined[base], k).connect # <<>>
    THEN Get(defined[base], k).connect[1].items
    ELSE <<>>

\* the value reads "target.out"
IsPair(value) ==
    /\ value.str
    /\ Len(value.text) = 3
    /\ value.text[2] = "."
    /\ value.text[1] # "."
    /\ value.text[3] # "."

\* the instance declares in connector c
HasIn(id, c) == inst[id].connector.in # <<>> /\ Has(inst[id].connector.in[1], c)

\* the object an in connector holds in the instances insts
ObjectOf(insts, id, c) == Get(insts[id].connector.in[1], c).object[1]

\* the instance declares in connector c with an 'object' key
HasObject(id, c) == HasIn(id, c) /\ Get(inst[id].connector.in[1], c).object # <<>>

\* in connector c is declared with a class and holds no object
DeclaredUnbound(id, c) ==
    /\ HasObject(id, c)
    /\ LET d == Get(inst[id].connector.in[1], c)
       IN  d.dict /\ d.class # <<>> /\ d.class[1].str /\ d.object[1] = None

\* the instance declares out connector o with a class
DeclaresOut(id, o) ==
    /\ inst[id].connector.out # <<>>
    /\ Has(inst[id].connector.out[1], o)
    /\ LET d == Get(inst[id].connector.out[1], o)
       IN  d.dict /\ d.class # <<>> /\ d.class[1].str

\* the categories connectModule looks a target up in that have it loaded
LoadedAs(name) == {b \in {"hardware", "logic"} : Has(loaded[b], name)}

\* a connect entry with nothing in the way of its binding
Wirable(id, e) ==
    /\ DeclaredUnbound(id, e.k)
    /\ IsPair(e.v)
    /\ Cardinality(LoadedAs(e.v.text[1])) = 1
    /\ \A b \in LoadedAs(e.v.text[1]) : DeclaresOut(Get(loaded[b], e.v.text[1]), e.v.text[3])

\* connectModule gets as far as entry i: every entry before it is bound
Reaches(id, items, i) == \A j \in 1..(i - 1) : Wirable(id, items[j])

(***************************************************************************)
(* C5: configureModule for a (category, instanceName) already in           *)
(* loaded[category] fails with the duplicate-name error; no instance is    *)
(* created and the registry keeps the first instance.                      *)
(***************************************************************************)
C5_DuplicateNameRejected ==
    [][IsCallOnLoaded("configureModule") =>
          /\ call'.raised = "duplicate"
          /\ call'.ret = None
          /\ call'.signals = <<>>
          /\ loaded' = loaded
          /\ inst' = inst]_vars

C5_Witness ==
    /\ call.op = "configureModule"
    /\ call.raised = "duplicate"
    /\ Has(loaded[call.base], call.key)

(***************************************************************************)
(* C6: of two callers running configureModule concurrently for the same    *)
(* category and instanceName at most one registers its instance, and an    *)
(* instance stored in loaded[category][name] is never replaced.            *)
(***************************************************************************)
C6_LockKeepsFirstInstance ==
    [][/\ \A b \in Categories, n \in InstanceNames :
            Has(loaded[b], n) =>
                Has(loaded'[b], n) /\ Get(loaded'[b], n) = Get(loaded[b], n)
       /\ \A t, u \in Callers :
            (/\ t # u
             /\ cm'[t].base = cm'[u].base
             /\ cm'[t].name = cm'[u].name
             /\ cm'[t].result = "returned")
                => cm'[u].result # "returned"]_vars

(***************************************************************************)
(* C7, as claimed: connectModule on a loaded module with a connect entry   *)
(* local -> "target.out", local a declared unbound in connector with a     *)
(* class, target loaded as hardware or logic and declaring out connector   *)
(* out with a class, leaves in[local].object equal to the target instance. *)
(***************************************************************************)
C7_ValidPairIsBound ==
    [][IsCallOnLoaded("connectModule") =>
          LET id == Get(loaded[call'.base], call'.key)
              items == ConnectOf(call'.base, call'.key)
          IN  \A i \in DOMAIN items :
                LET target == items[i].v.text[1]
                    out == items[i].v.text[3]
                IN  (/\ DeclaredUnbound(id, items[i].k)
                     /\ IsPair(items[i].v)
                     /\ LoadedAs(target) # {}
                     /\ \A b \in LoadedAs(target) : DeclaresOut(Get(loaded[b], target), out))
                    => \E b \in LoadedAs(target) :
                          ObjectOf(inst', id, items[i].k) = Get(loaded[b], target)]_vars

(***************************************************************************)
(* C7, amended: the same, for a target loaded under exactly one of         *)
(* hardware and logic and an entry that connectModule reaches, every       *)
(* entry before it in the connect section having been bound by the call.   *)
(***************************************************************************)
C7_ReachedUniquePairIsBound ==
    [][IsCallOnLoaded("connectModule") =>
          LET id == Get(loaded[call'.base], call'.key)
              items == ConnectOf(call'.base, call'.key)
          IN  \A i \in DOMAIN items :
                LET target == items[i].v.text[1]
                IN  (Wirable(id, items[i]) /\ Reaches(id, items, i))
                    => /\ call'.raised = "none"
                       /\ \A b \in LoadedAs(target) :
                            ObjectOf(inst', id, items[i].k) = Get(loaded[b], target)]_vars

C7_Witness ==
    /\ call.op = "connectModule"
    /\ call.base = "logic"
    /\ call.key = "y"
    /\ call.log = <<Status("Connecting"), Err("not found")>>
    /\ Has(loaded["hardware"], "x")
    /\ ObjectOf(inst, Get(loaded["logic"], "y"), "c1") = Get(loaded["hardware"], "x")

(***************************************************************************)
(* C8, as claimed: connectModule with a connect entry whose target name is *)
(* in neither loaded hardware nor loaded logic reports a not-found error,  *)
(* does not raise and leaves the in connector unbound.                     *)
(***************************************************************************)
C8_MissingTargetNotFound ==
    [][IsCallOnLoaded("connectModule") =>
          LET id == Get(loaded[call'.base], call'.key)
              items == ConnectOf(call'.base, call'.key)
          IN  \A i \in DOMAIN items :
                (/\ HasObject(id, items[i].k)
                 /\ ObjectOf(inst, id, items[i].k) = None
                 /\ IsPair(items[i].v)
                 /\ LoadedAs(items[i].v.text[1]) = {})
                => /\ call'.raised = "none"
                   /\ Err("not found") \in Range(call'.log)
                   /\ ObjectOf(inst', id, items[i].k) = None]_vars

(***************************************************************************)
(* C8, amended: the same, for an entry that connectModule reaches (every   *)
(* entry before it bound by the call) and whose in connector is declared   *)
(* with a class.                                                           *)
(***************************************************************************)
C8_ReachedMissingTargetNotFound ==
    [][IsCallOnLoaded("connectModule") =>
          LET id == Get(loaded[call'.base], call'.key)
              items == ConnectOf(call'.base, call'.key)
          IN  \A i \in DOMAIN items :
                (/\ DeclaredUnbound(id, items[i].k)
                 /\ IsPair(items[i].v)
                 /\ LoadedAs(items[i].v.text[1]) = {}
                 /\ Reaches(id, items, i))
                => /\ call'.raised = "none"
                   /\ call'.log # <<>>
                   /\ call'.log[Len(call'.log)] = Err("not found")
                   /\ ObjectOf(inst', id, items[i].k) = None]_vars

C8_Witness ==
    /\ call.op = "connectModule"
    /\ call.base = "gui"
    /\ call.key = "y"
    /\ call.raised = "none"
    /\ call.log = <<Status("Connecting"), Err("not found")>>
    /\ Has(loaded["gui"], "y")
    /\ ObjectOf(inst, Get(loaded["gui"], "y"), "c2") = None

(***************************************************************************)
(* C9: an in connector is bound at most once: once its object is not None  *)
(* the object never changes, and a connectModule call whose connect        *)
(* section names a bound connector is rejected with a reported error.      *)
(***************************************************************************)
C9_BoundAtMostOnce ==
    [][/\ \A id \in DOMAIN inst :
            inst[id].connector.in # <<>> =>
                \A j \in DOMAIN inst[id].connector.in[1] :
                    LET c == inst[id].connector.in[1][j].k
                    IN  (HasObject(id, c) /\ ObjectOf(inst, id, c) # None)
                        => ObjectOf(inst', id, c) = ObjectOf(inst, id, c)
       /\ IsCallOnLoaded("connectModule") =>
            LET id == Get(loaded[call'.base], call'.key)
                items == ConnectOf(call'.base, call'.key)
            IN  (\E i \in DOMAIN items :
                    HasObject(id, items[i].k) /\ ObjectOf(inst, id, items[i].k) # None)
                => /\ call'.raised = "none"
                   /\ Err("already connected") \in Range(call'.log)
                   /\ inst' = inst]_vars

C9_Witness ==
    /\ call.op = "connectModule"
    /\ call.log = <<Err("already connected")>>
    /\ Has(loaded[call.base], call.key)
    /\ ObjectOf(inst, Get(loaded[call.base], call.key), "c1") # None

(***************************************************************************)
(* C10: activateModule on a module of the startup set whose state is not   *)
(* 'deactivated' changes nothing, does not invoke the activation hook and  *)
(* reports no error.                                                       *)
(***************************************************************************)
C10_StartupReactivationIsNoOp ==
    [][(/\ IsCallOnLoaded("activateModule")
        /\ call'.base \in DOMAIN start
        /\ Has(start[call'.base], call'.key)
        /\ inst[Get(loaded[call'.base], call'.key)].state # "deactivated")
       => /\ call'.raised = "none"
          /\ call'.log = <<>>
          /\ ~call'.hook
          /\ inst' = inst
          /\ loaded' = loaded]_vars

C10_Witness ==
    /\ call.op = "activateModule"
    /\ call.base \in DOMAIN start
    /\ Has(start[call.base], call.key)
    /\ Has(loaded[call.base], call.key)
    /\ inst[Get(loaded[call.base], call.key)].state = "activated"
    /\ ~call.hook
    /\ call.log = <<>>
    /\ call.raised = "none"

(***************************************************************************)
(* Notions used to state the properties of activation.                     *)
(***************************************************************************)
\* the module is in the startup set (which exists for gui and logic only)
InStartup(base, k) == base \in DOMAIN start /\ Has(start[base], k)

\* the lifecycle state of the module a call is about, before the call
StateBefore == inst[Get(loaded[call'.base], call'.key)].state

(***************************************************************************)
(* C11: activateModule on a loaded module of any category that is not in   *)
(* the startup set and whose state is not 'deactivated' reports an error,  *)
(* does not invoke the activation hook and returns without raising.        *)
(***************************************************************************)
C11_ActiveModuleReportsError ==
    [][(/\ IsCallOnLoaded("activateModule")
        /\ ~InStartup(call'.base, call'.key)
        /\ StateBefore # "deactivated")
       => /\ call'.raised = "none"
          /\ call'.log = <<Err("not deactivated anymore")>>
          /\ ~call'.hook
          /\ inst' = inst]_vars

\* the activate events of a trace
Activations(trace) == SelectSeq(trace, LAMBDA e : e.op = "activate")

\* the hook of an activate event ran and failed
HookFailed(e) == e.op = "activate" /\ e.hook /\ e.failed

(***************************************************************************)
(* C12: when a module's activation hook fails inside activateModule the    *)
(* failure is logged and activateModule returns normally, and a run of     *)
(* startAllConfiguredModules in which a hook fails goes on to call         *)
(* activateModule for every loaded module.                                 *)
(***************************************************************************)
C12_HookFailureDoesNotStopStartup ==
    [][/\ (/\ IsCallOnLoaded("activateModule")
           /\ StateBefore = "deactivated"
           /\ ~ActivationSucceeds(inst[Get(loaded[call'.base], call'.key)].class))
          => /\ call'.raised = "none"
             /\ call'.hook
             /\ call'.log = <<Err("error during activation")>>
       /\ (/\ IsCall("startAllConfiguredModules")
           /\ \E i \in DOMAIN call'.trace : HookFailed(call'.trace[i]))
          => /\ call'.raised = "none"
             /\ [i \in DOMAIN Activations(call'.trace) |->
                    [base |-> Activations(call'.trace)[i].base,
                     key |-> Activations(call'.trace)[i].key]]
                = PairsOf(loaded', StartOrder, 1)]_vars

\* the phase a call belongs to and the place of a category in a phase
PhaseOf(op) == CASE op = "load" -> 1 [] op = "connect" -> 2 [] OTHER -> 3

PlaceOf(base) == CASE base = "hardware" -> 1 [] base = "logic" -> 2 [] OTHER -> 3

\* the position of key k in the dict d
IndexOf(d, k) == CHOOSE i \in DOMAIN d : d[i].k = k

\* the registry a phase walks through: defined, or loaded for the activation
WalkedBy(e, def, lod) == IF e.op = "activate" THEN lod[e.base] ELSE def[e.base]

\* event e comes strictly before event f in the fixed order of a run
Precedes(e, f, def, lod) ==
    \/ PhaseOf(e.op) < PhaseOf(f.op)
    \/ /\ e.op = f.op
       /\ \/ PlaceOf(e.base) < PlaceOf(f.base)
          \/ /\ e.base = f.base
             /\ IndexOf(WalkedBy(e, def, lod), e.key) < IndexOf(WalkedBy(f, def, lod), f.key)

\* the calls a complete run makes
Expected(def, lod) ==
    {[op |-> "load", base |-> b, key |-> k] : b \in Categories, k \in InstanceNames}
    \cup {[op |-> "connect", base |-> b, key |-> k] :
             b \in {"logic", "gui"}, k \in InstanceNames}
    \cup {[op |-> "activate", base |-> b, key |-> k] : b \in Categories, k \in InstanceNames}

Visits(e, def, lod) == Has(WalkedBy(e, def, lod), e.key)

(***************************************************************************)
(* C13: in every run of startAllConfiguredModules the calls are strictly   *)
(* ordered: the loads (hardware, logic, gui) before the connectModule      *)
(* calls (logic, gui; never hardware) before the activations (hardware,    *)
(* logic, gui), and within a category in the insertion order of the        *)
(* registry; a run that returns has made every one of these calls.         *)
(***************************************************************************)
C13_PhasesStrictlyOrdered ==
    [][IsCall("startAllConfiguredModules") =>
          LET trace == call'.trace
          IN  /\ \A i \in DOMAIN trace :
                    /\ trace[i].op \in {"load", "connect", "activate"}
                    /\ trace[i].base \in Categories
                    /\ trace[i].op = "connect" => trace[i].base # "hardware"
                    /\ Visits(trace[i], defined, loaded')
              /\ \A i, j \in DOMAIN trace :
                    i < j => Precedes(trace[i], trace[j], defined, loaded')
              /\ call'.raised = "none" =>
                    \A e \in Expected(defined, loaded') :
                        Visits(e, defined, loaded') =>
                            \E i \in DOMAIN trace :
                                /\ trace[i].op = e.op
                                /\ trace[i].base = e.base
                                /\ trace[i].key = e.key]_vars

C13_Witness ==
    /\ call.op = "startAllConfiguredModules"
    /\ call.raised = "none"
    /\ Len(call.trace) = 9
    /\ call.trace[1].op = "load" /\ call.trace[1].key = "x"
    /\ call.trace[2].op = "load" /\ call.trace[2].key = "y"
    /\ call.trace[4].op = "load" /\ call.trace[4].base = "gui"
    /\ call.trace[5].op = "connect" /\ call.trace[5].base = "logic"
    /\ call.trace[6].op = "connect" /\ call.trace[6].base = "gui"
    /\ call.trace[7].op = "activate" /\ call.trace[7].key = "x"
    /\ call.trace[8].op = "activate" /\ call.trace[8].key = "y"
    /\ call.trace[9].op = "activate" /\ call.trace[9].base = "gui"

\* the load of the defined module (b, k) succeeds when attempted now
LoadSucceeds(b, k) ==
    /\ Has(defined[b], k)
    /\ ~Has(loaded[b], k)
    /\ IsBase(Get(defined[b], k).module[1])

(***************************************************************************)
(* C14: startAllConfiguredModules keeps going after any single module's    *)
(* failure, also in a second run over loaded and activated modules: the    *)
(* call returns normally, and every defined module whose own load succeeds *)
(* is registered and has its activation attempted.                         *)
(***************************************************************************)
C14_StartupKeepsGoing ==
    [][IsCall("startAllConfiguredModules") =>
          /\ call'.raised = "none"
          /\ \A b \in Categories, k \in InstanceNames :
                LoadSucceeds(b, k) =>
                    /\ Has(loaded'[b], k)
                    /\ \E i \in DOMAIN call'.trace :
                          /\ call'.trace[i].op = "activate"
                          /\ call'.trace[i].base = b
                          /\ call'.trace[i].key = k]_vars

(***************************************************************************)
(* Notions used to state the properties of configure.                      *)
(***************************************************************************)
\* the section of a document under a top-level key, empty if it has none
SectionOf(cfg, k) == IF Has(cfg, k) THEN Get(cfg, k) ELSE <<>>

\* the names of a section whose entries have a 'module'
ModuleBearing(section) ==
    {section[i].k : i \in {j \in DOMAIN section : section[j].v.module # <<>>}}

\* every entry of the section is a mapping
AllMappings(section) == \A i \in DOMAIN section : section[i].v.mapping

\* hardware the disable options keep out
Disabled(cat, name) == cat = "hardware" /\ (disableAllDevs \/ name \in disableDevs)

\* defined[cat] after the call is defined[cat] before it merged with names
Merged(cat, section, names) ==
    /\ KeySet(defined'[cat]) = KeySet(defined[cat]) \cup names
    /\ \A n \in names : Get(defined'[cat], n) = Get(section, n)
    /\ \A n \in KeySet(defined[cat]) \ names :
            Get(defined'[cat], n) = Get(defined[cat], n)

CategoriesOf(name) == {b \in Categories : Has(loaded[b], name)}

(***************************************************************************)
(* C16: in every reachable state of the registry an instance name is       *)
(* loaded in at most one category.                                         *)
(***************************************************************************)
C16_NameLoadedInOneCategory ==
    \A n \in InstanceNames : Cardinality(CategoriesOf(n)) <= 1

(***************************************************************************)
(* C17, as claimed: connectModule with a connect entry whose target name   *)
(* is loaded both as a hardware and as a logic module reports an ambiguity *)
(* error, does not raise and leaves the in connector unbound.              *)
(***************************************************************************)
C17_AmbiguousTargetReported ==
    [][IsCallOnLoaded("connectModule") =>
          LET id == Get(loaded[call'.base], call'.key)
              items == ConnectOf(call'.base, call'.key)
          IN  \A i \in DOMAIN items :
                (/\ HasObject(id, items[i].k)
                 /\ ObjectOf(inst, id, items[i].k) = None
                 /\ IsPair(items[i].v)
                 /\ LoadedAs(items[i].v.text[1]) = {"hardware", "logic"})
                => /\ call'.raised = "none"
                   /\ Err("ambiguous") \in Range(call'.log)
                   /\ ObjectOf(inst', id, items[i].k) = None]_vars

(***************************************************************************)
(* C17, amended: the same, for an entry that connectModule reaches (every  *)
(* entry before it bound by the call) and whose in connector is declared   *)
(* with a class.                                                           *)
(***************************************************************************)
C17_ReachedAmbiguousTargetReported ==
    [][IsCallOnLoaded("connectModule") =>
          LET id == Get(loaded[call'.base], call'.key)
              items == ConnectOf(call'.base, call'.key)
          IN  \A i \in DOMAIN items :
                (/\ DeclaredUnbound(id, items[i].k)
                 /\ IsPair(items[i].v)
                 /\ LoadedAs(items[i].v.text[1]) = {"hardware", "logic"}
                 /\ Reaches(id, items, i))
                => /\ call'.raised = "none"
                   /\ call'.log # <<>>
                   /\ call'.log[Len(call'.log)] = Err("ambiguous")
                   /\ ObjectOf(inst', id, items[i].k) = None]_vars

C17_Witness ==
    /\ call.op = "connectModule"
    /\ call.base = "gui"
    /\ call.key = "y"
    /\ call.raised = "none"
    /\ call.log = <<Err("ambiguous")>>
    /\ Has(loaded["hardware"], "x")
    /\ Has(loaded["logic"], "x")
    /\ ObjectOf(inst, Get(loaded["gui"], "y"), "c1") = None

\* a connect value that is not "module.connector"
Malformed(value) == ~value.str \/ "." \notin Range(value.text)

(***************************************************************************)
(* C18: connectModule with a connect value that is malformed (not a        *)
(* string, or a string without a dot), on an entry it reaches whose in     *)
(* connector is declared and unbound, reports an error, does not raise and *)
(* leaves the connector unbound.                                           *)
(***************************************************************************)
C18_MalformedValueReported ==
    [][IsCallOnLoaded("connectModule") =>
          LET id == Get(loaded[call'.base], call'.key)
              items == ConnectOf(call'.base, call'.key)
          IN  \A i \in DOMAIN items :
                (/\ DeclaredUnbound(id, items[i].k)
                 /\ Malformed(items[i].v)
                 /\ Reaches(id, items, i))
                => /\ call'.raised = "none"
                   /\ call'.log # <<>>
                   /\ call'.log[Len(call'.log)].msgType = "error"
                   /\ ObjectOf(inst', id, items[i].k) = None]_vars

\* the in connectors of every instance, with the objects they hold
InObjects(insts) == [id \in DOMAIN insts |-> insts[id].connector.in]

\* the call is connectModule on a module that is defined
IsConnectOnDefined ==
    /\ IsCall("connectModule")
    /\ call'.base \in Categories
    /\ Has(defined[call'.base], call'.key)

\* the defined module has a connect section
HasConnect(base, k) == Get(defined[base], k).connect # <<>>

\* what the claim says of a module that is not loaded, has no connect
\* section or declares no in connectors
NothingToWire ==
    /\ (IsConnectOnDefined /\ ~Has(loaded[call'.base], call'.key))
          => /\ call'.raised = "none"
             /\ call'.log = <<Err("not loaded")>>
             /\ inst' = inst
    /\ IsCallOnLoaded("connectModule") =>
          LET id == Get(loaded[call'.base], call'.key)
          IN  /\ ~HasConnect(call'.base, call'.key)
                    => call'.raised = "none" /\ call'.log = <<>> /\ inst' = inst
              /\ (HasConnect(call'.base, call'.key) /\ inst[id].connector.in = <<>>)
                    => /\ call'.raised = "none"
                       /\ call'.log = <<Err("no IN connectors")>>
                       /\ inst' = inst

(***************************************************************************)
(* C19, as claimed: connectModule for a defined module that was not        *)
(* loaded, or that declares no in connectors, or whose connect entry names *)
(* a connector absent from its in table, returns without raising and       *)
(* without changing any connector; a loaded module without connect section *)
(* returns with no error logged.                                           *)
(***************************************************************************)
C19_UnwirableChangesNothing ==
    [][/\ NothingToWire
       /\ IsCallOnLoaded("connectModule") =>
            LET id == Get(loaded[call'.base], call'.key)
                items == ConnectOf(call'.base, call'.key)
            IN  (/\ inst[id].connector.in # <<>>
                 /\ \E i \in DOMAIN items : ~HasIn(id, items[i].k))
                => /\ call'.raised = "none"
                   /\ InObjects(inst') = InObjects(inst)]_vars

(***************************************************************************)
(* C19, amended: the same, where the entry naming an absent connector is   *)
(* one that connectModule reaches (every entry before it bound by the      *)
(* call): the call then returns without raising and changes no connector   *)
(* but those of the entries before it.                                     *)
(***************************************************************************)
C19_ReachedAbsentConnectorStops ==
    [][/\ NothingToWire
       /\ IsCallOnLoaded("connectModule") =>
            LET id == Get(loaded[call'.base], call'.key)
                items == ConnectOf(call'.base, call'.key)
            IN  \A i \in DOMAIN items :
                  (/\ inst[id].connector.in # <<>>
                   /\ ~HasIn(id, items[i].k)
                   /\ Reaches(id, items, i))
                  => /\ call'.raised = "none"
                     /\ call'.log[Len(call'.log)] = Err("IN connector not declared")
                     /\ \A other \in DOMAIN inst \ {id} :
                            InObjects(inst')[other] = InObjects(inst)[other]
                     /\ \A j \in DOMAIN inst[id].connector.in[1] :
                            LET c == inst[id].connector.in[1][j].k
                            IN  c \notin {items[n].k : n \in 1..(i - 1)}
                                  => Get(inst'[id].connector.in[1], c)
                                       = Get(inst[id].connector.in[1], c)]_vars

C19_Witness ==
    /\ call.op = "connectModule"
    /\ call.base = "gui"
    /\ call.key = "x"
    /\ call.raised = "none"
    /\ call.log = <<Status("Connecting"), Err("IN connector not declared")>>
    /\ ObjectOf(inst, Get(loaded["gui"], "x"), "c1") = Get(loaded["hardware"], "y")
    /\ ObjectOf(inst, Get(loaded["gui"], "x"), "c2") = None

\* the (category, name) slots an instance is loaded under
SlotsOf(id) ==
    {s \in [base : Categories, key : InstanceNames] :
        Has(loaded[s.base], s.key) /\ Get(loaded[s.base], s.key) = id}

\* the instance is loaded as hardware or logic under the name, and declares
\* the out connector with a class
IsTarget(t, name, out) ==
    /\ \E b \in {"hardware", "logic"} : Has(loaded[b], name) /\ Get(loaded[b], name) = t
    /\ DeclaresOut(t, out)

(***************************************************************************)
(* C20: in every reachable state the object of a bound in connector is an  *)
(* instance loaded under hardware or logic, under the name before the dot  *)
(* of the module's connect entry for that connector, and it declares the   *)
(* out connector named after the dot with a string class.                  *)
(***************************************************************************)
C20_BoundToDeclaringTarget ==
    \A id \in DOMAIN inst :
        inst[id].connector.in # <<>> =>
            \A j \in DOMAIN inst[id].connector.in[1] :
                LET c == inst[id].connector.in[1][j].k
                IN  (HasObject(id, c) /\ ObjectOf(inst, id, c) # None) =>
                        \E s \in SlotsOf(id) :
                            /\ Has(ConnectOf(s.base, s.key), c)
                            /\ LET value == Get(ConnectOf(s.base, s.key), c)
                               IN  /\ value.str
                                   /\ Len(Split(value.text)) >= 2
                                   /\ IsTarget(ObjectOf(inst, id, c),
                                               Split(value.text)[1],
                                               Split(value.text)[2])

C20_Witness ==
    /\ call.op = "connectModule"
    /\ call.base = "logic"
    /\ call.key = "y"
    /\ Has(loaded["logic"], "y")
    /\ Has(loaded["hardware"], "x")
    /\ HasObject(Get(loaded["logic"], "y"), "c1")
    /\ IsTarget(ObjectOf(inst, Get(loaded["logic"], "y"), "c1"), "x", "out")

\* the class configureModule is called with does not derive from Base
BadClass(base, k) ==
    /\ base \in Categories
    /\ Has(defined[base], k)
    /\ ~IsBase(Get(defined[base], k).module[1])

(***************************************************************************)
(* C21: configureModule with a category other than hardware, logic or gui, *)
(* or with a class that does not derive from Base, raises to its caller,   *)
(* returns no instance, leaves every loaded table unchanged and emits no   *)
(* modules-changed notification.                                           *)
(***************************************************************************)
C21_BadCategoryOrClassFails ==
    [][IsCall("configureModule")
          /\ (call'.base \notin Categories \/ BadClass(call'.base, call'.key))
       => /\ call'.base \notin Categories => call'.raised = "category"
          /\ call'.base \in Categories => call'.raised \in {"duplicate", "inheritance"}
          /\ call'.ret = None
          /\ call'.signals = <<>>
          /\ loaded' = loaded]_vars

C21_Witness ==
    /\ call.op = "configureModule"
    /\ call.raised = "inheritance"
    /\ call.signals = <<>>
    /\ \E b \in Categories : loaded[b] # <<>>

(***************************************************************************)
(* C22: a configureModule call that succeeds creates one instance, stores  *)
(* it under loaded[category][instanceName] leaving every other entry as it *)
(* was, returns that same instance, and emits sigModulesChanged exactly    *)
(* once, at a time when the instance is already in the table.              *)
(***************************************************************************)
C22_SuccessRegistersThenEmits ==
    [][IsCall("configureModule") /\ call'.raised = "none"
       => LET base == call'.base
              k    == call'.key
          IN  /\ base \in Categories
              /\ ~Has(loaded[base], k)
              /\ Len(inst') = Len(inst) + 1
              /\ call'.ret = Len(inst')
              /\ inst'[call'.ret].name = k
              /\ loaded' = [loaded EXCEPT ![base] = Append(@, [k |-> k, v |-> call'.ret])]
              /\ call'.signals = <<"sigModulesChanged">>
              /\ Len(call'.seen) = 1
              /\ Has(call'.seen[1][base], k)
              /\ Get(call'.seen[1][base], k) = call'.ret]_vars

C22_Witness ==
    /\ call.op = "configureModule"
    /\ call.raised = "none"
    /\ call.base = "logic"
    /\ call.signals = <<"sigModulesChanged">>
    /\ Loaded(Mgr, "logic", call.key) = call.ret
    /\ loaded["hardware"] # <<>>

\* the log of the call holds the error entry written when a key raised
KeyRaised(log) ==
    \E i \in DOMAIN log : log[i] = Err("Error in configuration")

(***************************************************************************)
(* C23: every configure() call returns without raising and emits           *)
(* sigConfigChanged exactly once, at a time when the tree is already the   *)
(* one the call leaves, that is after every top-level key was processed;   *)
(* this also holds when the processing of one or more keys raised.         *)
(***************************************************************************)
C23_ConfigChangedOnceAtEnd ==
    [][IsCall("configure")
       => /\ call'.raised = "none"
          /\ call'.signals = <<"sigConfigChanged">>
          /\ call'.seen = <<[defined |-> defined', start |-> start',
                             config |-> config']>>]_vars

C23_Witness ==
    /\ call.op = "configure"
    /\ Len(call.cfg) > 1
    /\ KeyRaised(call.log)
    /\ call.signals = <<"sigConfigChanged">>
    /\ Has(config, "opt")

\* the entry stored under name is the same before and after, or there is none
Kept(before, after, name) ==
    /\ Has(after, name) = Has(before, name)
    /\ Has(before, name) => Get(after, name) = Get(before, name)

\* what the call does with the entries of one section of the document, going
\* into one table of the registry
EntriesSkippedOrStored(cat, section, before, after) ==
    \A i \in DOMAIN section :
        IF section[i].v.module = <<>>
        THEN Kept(before, after, section[i].k)
        ELSE ~Disabled(cat, section[i].k) =>
                /\ Has(after, section[i].k)
                /\ Get(after, section[i].k) = section[i].v

\* every entry of the table has a 'module'
AllHaveModule(table) == \A i \in DOMAIN table : table[i].v.module # <<>>

(***************************************************************************)
(* C24: every entry of defined[hardware|logic|gui] and of start[gui|logic] *)
(* has a 'module'.  A configure() call leaves the registry entry of a name *)
(* whose document entry has no 'module' as it was (none, or the one stored *)
(* before), and stores every other (not disabled) entry of the section: an *)
(* entry without 'module' does not stop the processing of the others.      *)
(***************************************************************************)
C24_EntriesWithoutModuleSkipped ==
    [][IsCall("configure") =>
          /\ \A cat \in Categories :
                /\ EntriesSkippedOrStored(cat, SectionOf(call'.cfg, cat),
                                          defined[cat], defined'[cat])
                /\ AllHaveModule(defined'[cat])
          /\ \A cat \in StartCategories :
                /\ EntriesSkippedOrStored(cat,
                        SectionOf(SectionOf(call'.cfg, "startup"), cat),
                        start[cat], start'[cat])
                /\ AllHaveModule(start'[cat])]_vars

\* the document has a global section with the option storageDir
SetsStorageDir(cfg) == Has(cfg, "global") /\ Has(Get(cfg, "global"), "storageDir")

\* the directory of a path (os.path.dirname), for the path of the documents:
\* a path without a separator has the directory ''
DerivedDir(path) == CASE path = "dir" -> ""

(***************************************************************************)
(* C25: a configure() call whose document has a global section with        *)
(* storageDir leaves the manager's base directory at the directory derived *)
(* from that value, and emits sigBaseDirChanged if and only if the base    *)
(* directory differs from the one before the call.                         *)
(***************************************************************************)
C25_StorageDirApplied ==
    [][IsCall("configure") /\ SetsStorageDir(call'.cfg)
       => /\ baseDir' = DerivedDir(Get(Get(call'.cfg, "global"), "storageDir"))
          /\ (\E i \in DOMAIN call'.signals : call'.signals[i] = "sigBaseDirChanged")
                <=> baseDir' # baseDir]_vars

(***************************************************************************)
(* Notions used to state the properties of the cost ordering.              *)
(***************************************************************************)
\* the downstream set of a node: the node and every node that depends on it,
\* directly or through other nodes
Downstream(d, n) == {n} \cup {m \in Nodes(d) : n \in Closure(d, DependsOn(d, m))}

\* the branch cost of a node: the costs of its downstream set, summed
BranchCost(d, c, n) == SumCost(c, Downstream(d, n))

\* this step is an iteration of the loop that appends a node
Appends == tpc = "loop" /\ order' # order

Appended == order'[Len(order')]

(***************************************************************************)
(* C26: with a cost mapping, every iteration of the loop appends a ready   *)
(* node (one without unresolved dependencies) whose total branch cost is   *)
(* maximal among the ready nodes, and no ready node of the same branch     *)
(* cost comes before it in the order of the working graph.                 *)
(***************************************************************************)
C26_PicksMaximalBranchCost ==
    [][Appends /\ cost.given
       => LET ready == Ready(deps)
          IN  /\ \E j \in DOMAIN ready : ready[j] = Appended
              /\ \A j \in DOMAIN ready :
                    BranchCost(deps0, cost, Appended) >= BranchCost(deps0, cost, ready[j])
              /\ \A i, j \in DOMAIN ready :
                    (ready[j] = Appended /\ i < j) =>
                        BranchCost(deps0, cost, ready[i])
                            # BranchCost(deps0, cost, Appended)]_vars

(***************************************************************************)
(* C27: for every acyclic graph, the total branch cost toposort computes   *)
(* for a node is the sum of the costs (0 for a node without cost entry) of *)
(* the node's downstream set, the node itself and every node that depends  *)
(* on it directly or indirectly, each counted once; node names may have    *)
(* any length.                                                             *)
(***************************************************************************)
C27_TotalCostIsBranchCost ==
    (key.given /\ ~Cyclic(deps0)) =>
        /\ DOMAIN key.total = Nodes(deps0)
        /\ \A n \in Nodes(deps0) : key.total[n] = BranchCost(deps0, cost, n)

(***************************************************************************)
(* Notions used to state the order in which toposort looks at the nodes.   *)
(***************************************************************************)
\* the keys of the mapping, each followed by its dependency list
RECURSIVE Flatten(_, _)
Flatten(d, i) ==
    IF i > Len(d) THEN <<>> ELSE <<d[i].k>> \o d[i].v \o Flatten(d, i + 1)

\* the keys of the mapping, each followed by those of its dependencies that
\* are not keys
RECURSIVE FlattenDependencyOnly(_, _)
FlattenDependencyOnly(d, i) ==
    IF i > Len(d) THEN <<>>
    ELSE <<d[i].k>> \o SelectSeq(d[i].v, LAMBDA n : ~Has(d, n))
                    \o FlattenDependencyOnly(d, i + 1)

\* the sequence without the repetitions of an element
RECURSIVE FirstOccurrences(_, _)
FirstOccurrences(s, seen) ==
    IF s = <<>> THEN <<>>
    ELSE IF Head(s) \in seen THEN FirstOccurrences(Tail(s), seen)
         ELSE <<Head(s)>> \o FirstOccurrences(Tail(s), seen \cup {Head(s)})

\* keys in input order, dependency-only nodes at their first reference
KeysThenReferences(d) == FirstOccurrences(FlattenDependencyOnly(d, 1), {})

\* every node at its first appearance, as a key or in a dependency list
AppearanceOrder(d) == FirstOccurrences(Flatten(d, 1), {})

\* the first node of ord that is ready in the working graph
FirstReady(ord, work) ==
    Head(SelectSeq(ord, LAMBDA n : Has(work, n) /\ Get(work, n) = <<>>))

SectionKeys == Categories \cup {"startup", "global"}

\* the stored mapping after is the mapping before (no key, if there was no
\* mapping) with the items of value put over it, one level deep
MergedOneLevel(before, after, k, value) ==
    LET old == IF Has(before, k) /\ Get(before, k).dict
               THEN Get(before, k).items ELSE <<>>
    IN  /\ Has(after, k)
        /\ Get(after, k).dict
        /\ KeySet(Get(after, k).items) = KeySet(old) \cup KeySet(value.items)
        /\ \A n \in KeySet(value.items) :
                Get(Get(after, k).items, n) = Get(value.items, n)
        /\ \A n \in KeySet(old) \ KeySet(value.items) :
                Get(Get(after, k).items, n) = Get(old, n)

(***************************************************************************)
(* C29: for a top-level key other than hardware, logic, gui, startup and   *)
(* global, configure() merges a mapping value key by key, one level deep,  *)
(* into the value stored under the key (the later value of a key wins, a   *)
(* nested value is replaced whole) and replaces the stored value by a      *)
(* value that is not a mapping, whatever was stored under the key before.  *)
(***************************************************************************)
C29_OtherKeysMergedOrOverwritten ==
    [][IsCall("configure") =>
          \A i \in DOMAIN call'.cfg :
              LET k     == call'.cfg[i].k
                  value == call'.cfg[i].v
              IN  k \notin SectionKeys =>
                      IF value.dict
                      THEN MergedOneLevel(config, config', k, value)
                      ELSE Has(config', k) /\ Get(config', k) = value]_vars

\* the call of loadConfigureModule of this step registered a new instance
LoadedNow ==
    /\ call'.base \in Categories
    /\ ~Has(loaded[call'.base], call'.key)
    /\ Has(loaded'[call'.base], call'.key)

ThreadNames(ts) == {ts[i].name : i \in DOMAIN ts}

(***************************************************************************)
(* C30: a loadConfigureModule call that loads a logic module creates one   *)
(* new thread for it, named after the module, and starts it; the instance  *)
(* is registered and is the one moved to the thread.  A call that loads a  *)
(* hardware or gui module, or that loads nothing, creates no thread.       *)
(***************************************************************************)
C30_ThreadPerLoadedLogic ==
    [][IsCall("loadConfigureModule") =>
          IF LoadedNow /\ call'.base = "logic"
          THEN LET name == <<"mod", "logic", call'.key>>
               IN  /\ name \notin ThreadNames(threads)
                   /\ threads' = Append(threads, [name |-> name, started |-> TRUE])
                   /\ inst'[Get(loaded'["logic"], call'.key)].thread = <<name>>
                   /\ \A i \in DOMAIN inst : inst'[i].thread = inst[i].thread
          ELSE /\ threads' = threads
               /\ \A i \in DOMAIN inst' :
                     inst'[i].thread = IF i \in DOMAIN inst THEN inst[i].thread ELSE <<>>]_vars

C30_Witness ==
    /\ call.op = "loadConfigureModule"
    /\ call.base = "logic"
    /\ call.log = <<>>
    /\ loaded["hardware"] # <<>>
    /\ Len(threads) = 1
    /\ threads[1] = [name |-> <<"mod", "logic", call.key>>, started |-> TRUE]
    /\ inst[Get(loaded["logic"], call.key)].thread = <<threads[1].name>>

\* the class string the instance declares on out connector o
OutClass(t, o) == Get(inst[t].connector.out[1], o).class[1].name

\* the class string the instance declares on in connector c
InClass(id, c) == Get(inst[id].connector.in[1], c).class[1].name

(***************************************************************************)
(* C31: connectModule compares the class strings before it binds: in every *)
(* reachable state a bound in connector holds a target whose out           *)
(* connector, the one named after the dot of the connect entry, is         *)
(* declared with the same class string as the in connector.                *)
(***************************************************************************)
C31_BoundClassesEqual ==
    \A id \in DOMAIN inst :
        inst[id].connector.in # <<>> =>
            \A j \in DOMAIN inst[id].connector.in[1] :
                LET c == inst[id].connector.in[1][j].k
                IN  (HasObject(id, c) /\ ObjectOf(inst, id, c) # None) =>
                        \A s \in SlotsOf(id) :
                            LET value == Get(ConnectOf(s.base, s.key), c)
                                t     == ObjectOf(inst, id, c)
                            IN  OutClass(t, Split(value.text)[2]) = InClass(id, c)

\* the first entry of the connect section with something in the way of its
\* binding; one past the last entry if there is none
FirstFailing(id, items) ==
    LET failing == {i \in DOMAIN items : ~Wirable(id, items[i])}
    IN  IF failing = {} THEN Len(items) + 1
        ELSE CHOOSE i \in failing : \A j \in failing : i <= j

(***************************************************************************)
(* C32: a connectModule call works through the connect entries in declared *)
(* order and stops at the first entry that fails a check.  The entries     *)
(* before it are bound to their targets, one status message each, in that  *)
(* order; the failing entry and every entry after it, valid or not, keep   *)
(* the connector as it was before the call, and so does every connector    *)
(* the connect section does not name.                                      *)
(***************************************************************************)
C32_StopsAtFirstFailingEntry ==
    [][IsCallOnLoaded("connectModule") =>
          LET id    == Get(loaded[call'.base], call'.key)
              items == ConnectOf(call'.base, call'.key)
              stop  == FirstFailing(id, items)
          IN  /\ \A i \in 1..(stop - 1) :
                    /\ call'.log[i] = Status("Connecting")
                    /\ \A b \in LoadedAs(items[i].v.text[1]) :
                          ObjectOf(inst', id, items[i].k)
                              = Get(loaded[b], items[i].v.text[1])
              /\ \A n \in DOMAIN call'.log :
                    call'.log[n] = Status("Connecting") => n < stop
              /\ inst[id].connector.in = <<>> => inst'[id] = inst[id]
              /\ inst[id].connector.in # <<>> =>
                    \A j \in DOMAIN inst[id].connector.in[1] :
                        LET c == inst[id].connector.in[1][j].k
                        IN  c \notin {items[n].k : n \in 1..(stop - 1)}
                              => Get(inst'[id].connector.in[1], c)
                                   = Get(inst[id].connector.in[1], c)]_vars

\* gui x asks for y.out, declared without class, and then for x.out, which is
\* valid: the first entry fails and x.out stays unbound
C32_Witness ==
    /\ call.op = "connectModule"
    /\ call.base = "gui"
    /\ call.key = "x"
    /\ Has(loaded["gui"], "x")
    /\ LET id    == Get(loaded["gui"], "x")
           items == ConnectOf("gui", "x")
       IN  /\ Len(items) = 2
           /\ ~Wirable(id, items[1])
           /\ Wirable(id, items[2])
           /\ call.log = <<Err("no class key in dict")>>
           /\ ObjectOf(inst, id, items[2].k) = None

\* the manager as it is, had no disable option been given
WithoutDisableOptions(m) == [m EXCEPT !.disableDevs = {}, !.disableAllDevs = FALSE]

\* the run of startAllConfiguredModules makes a call for hardware name
Touches(run, name) ==
    \/ Has(run.m.loaded["hardware"], name)
    \/ \E i \in DOMAIN run.trace :
          run.trace[i].base = "hardware" /\ run.trace[i].key = name

\* no disabled hardware is defined, and a run of startAllConfiguredModules on
\* the tree as it is would not touch any
DisabledKeptOut ==
    \A n \in InstanceNames :
        Disabled("hardware", n) =>
            /\ ~Has(defined["hardware"], n)
            /\ ~Touches(StartAllConfiguredModules(Mgr), n)

(***************************************************************************)
(* C33: after any sequence of configure() calls no hardware named in the   *)
(* disable list and, with the disable-all flag, no hardware at all is in   *)
(* defined[hardware], so that startAllConfiguredModules, run on the tree   *)
(* the calls leave, neither loads nor activates it; the logic, gui and     *)
(* startup entries a call leaves are what they would be without the        *)
(* disable options.                                                        *)
(***************************************************************************)
C33_DisabledHardwareKeptOut ==
    /\ []DisabledKeptOut
    /\ [][IsCall("configure") =>
             LET plain == Configure(WithoutDisableOptions(Mgr), call'.cfg).m
             IN  /\ defined'["logic"] = plain.defined["logic"]
                 /\ defined'["gui"] = plain.defined["gui"]
                 /\ start' = plain.start]_vars

C33_Witness ==
    /\ call.op = "configure"
    /\ disableDevs = {"x"}
    /\ Has(SectionOf(call.cfg, "hardware"), "x")
    /\ Get(SectionOf(call.cfg, "hardware"), "x").module # <<>>
    /\ Get(SectionOf(call.cfg, "hardware"), "x").mapping
    /\ ~Has(defined["hardware"], "x")
    /\ Has(defined["hardware"], "y")
    /\ Has(defined["logic"], "x")

\* the declaration of an in connector but for the object it holds
Unbound(decl) == IF decl.object = <<>> THEN decl ELSE [decl EXCEPT !.object = <<None>>]

\* the instance but for the objects its in connectors hold
WithoutObjects(i) ==
    IF i.connector.in = <<>> THEN i
    ELSE [i EXCEPT !.connector.in =
            << [j \in DOMAIN i.connector.in[1] |->
                    [k |-> i.connector.in[1][j].k,
                     v |-> Unbound(i.connector.in[1][j].v)]] >>]

(***************************************************************************)
(* C34: a connectModule call changes nothing but the object held by in     *)
(* connectors of the module named in the call.  The defined, loaded, start *)
(* and config trees, the threads and the base directory are unchanged, no  *)
(* instance is created, every other instance is unchanged, and the module  *)
(* of the call keeps its class, name, lifecycle state, thread, out         *)
(* connectors and the declarations of its in connectors.                   *)
(***************************************************************************)
C34_ConnectOnlySetsObjects ==
    [][IsCall("connectModule") =>
          /\ defined' = defined
          /\ loaded' = loaded
          /\ start' = start
          /\ config' = config
          /\ threads' = threads
          /\ baseDir' = baseDir
          /\ DOMAIN inst' = DOMAIN inst
          /\ \A id \in DOMAIN inst :
                IF /\ call'.base \in Categories
                   /\ Has(loaded[call'.base], call'.key)
                   /\ id = Get(loaded[call'.base], call'.key)
                THEN WithoutObjects(inst'[id]) = WithoutObjects(inst[id])
                ELSE inst'[id] = inst[id]]_vars

C34_Witness ==
    /\ call.op = "connectModule"
    /\ call.base \in Categories
    /\ Has(loaded[call.base], call.key)
    /\ Len(inst) >= 2
    /\ call.log # <<>>
    /\ call.log[1] = Status("Connecting")
    /\ \E id \in DOMAIN inst : inst[id].state = "activated"
    /\ WithoutObjects(inst[Get(loaded[call.base], call.key)])
          # inst[Get(loaded[call.base], call.key)]

Iterations == Len(order) + (IF tpc = "raised" /\ deps # <<>> THEN 1 ELSE 0)

\* the call has ended, with an order or with the cycle error
TopoEnded == tpc \in {"done", "raised"}

\* a bound on the steps the call has still to make: the copy and pre-pass,
\* one iteration for each node of the working graph, and the return
Remaining ==
    IF TopoEnded THEN 0
    ELSE IF tpc = "start" THEN Cardinality(Nodes(deps0)) + 2
    ELSE Len(deps) + 1

(***************************************************************************)
(* C36: toposort terminates on every mapping.  Every iteration of the loop *)
(* either raises the cycle error, leaving the working graph as it is, or   *)
(* removes exactly one node, the one it appends, from the working graph;   *)
(* the call makes at most as many iterations as there are nodes.  A call   *)
(* that has not ended is before the copy or at the loop test, where it     *)
(* takes a step, and every step lowers the bound on the steps that remain, *)
(* so every call ends, by returning or by raising.                         *)
(***************************************************************************)
C36_Terminates ==
    /\ [][tpc = "loop" /\ tpc' # "done" =>
            \/ tpc' = "raised" /\ deps' = deps /\ order' = order
            \/ /\ tpc' = "loop"
               /\ Len(order') = Len(order) + 1
               /\ Len(deps') = Len(deps) - 1
               /\ KeySet(deps') = KeySet(deps) \ {Appended}]_vars
    /\ [](tpc # "start" => Iterations <= Cardinality(Nodes(deps0)))
    /\ [](~TopoEnded => tpc \in {"start", "loop"})
    /\ [][Remaining' < Remaining]_vars

\* a call with cost on the docstring example has made five iterations
C36_Witness ==
    /\ deps0 = DocDeps
    /\ cost = DocCost
    /\ tpc = "done"
    /\ Iterations = 5
    /\ deps = <<>>


\* position i of s belongs to an occurrence of CR LF
InPair(s, i) ==
    \/ s[i] = CR /\ i < Len(s) /\ s[i + 1] = LF
    \/ s[i] = LF /\ i > 1 /\ s[i - 1] = CR

\* s without the positions that belong to an occurrence of CR LF
WithoutPairs(s) ==
    LET kept == {i \in 1..Len(s) : ~InPair(s, i)}
    IN  [j \in 1..Cardinality(kept) |->
            s[CHOOSE i \in kept : Cardinality({k \in kept : k < i}) = j - 1]]

(***************************************************************************)
(* C37: a call of tell or ask hands the socket exactly one command, and    *)
(* that command ends with a line feed: it is the argument followed by a    *)
(* line feed when the argument does not end with one, and the argument     *)
(* itself when it does.  ask returns the answer it received with every     *)
(* carriage return + line feed pair taken out.                             *)
(***************************************************************************)
C37_OneCommandWithLineFeed ==
    awg.op \in {"tell", "ask"} =>
        /\ Len(soc.sent) = 1
        /\ soc.sent[1][Len(soc.sent[1])] = LF
        /\ (awg.arg = <<>> \/ awg.arg[Len(awg.arg)] # LF)
               => soc.sent[1] = awg.arg \o <<LF>>
        /\ (awg.arg # <<>> /\ awg.arg[Len(awg.arg)] = LF)
               => soc.sent[1] = awg.arg
        /\ awg.raised = "none"
        /\ awg.op = "ask" => awg.ret = WithoutPairs(soc.reply)

C37_Witness ==
    /\ awg.op = "ask"
    /\ awg.arg = <<"C", LF>>
    /\ soc.sent = << <<"C", LF>> >>
    /\ soc.reply = <<"2", CR, LF, "x">>
    /\ awg.ret = <<"2", "x">>

\* the part of s before its first occurrence of CR LF, all of s without one
BeforeFirstPair(s) ==
    LET at == {i \in 1..Len(s) - 1 : s[i] = CR /\ s[i + 1] = LF}
    IN  IF at = {} THEN s
        ELSE SubSeq(s, 1, (CHOOSE i \in at : \A k \in at : i <= k) - 1)

\* text is a decimal numeral, white space around it allowed
IsNumeral(text) ==
    \E a, b \in 1..Len(text) :
        /\ a <= b
        /\ \A i \in 1..Len(text) :
              IF a <= i /\ i <= b THEN text[i] = "2"
              ELSE text[i] \in {CR, LF}

\* the integer a numeral made of n digits 2 encodes: 2, 22, 222, ...
Encoded(text) ==
    LET n == Cardinality({i \in 1..Len(text) : text[i] = "2"})
    IN  2 * ((10 ^ n - 1) \div 9)

(***************************************************************************)
(* C38: get_status never raises on an answer; it returns the integer       *)
(* encoded in the part of the answer before the first carriage return +    *)
(* line feed pair, and -1 when that part is empty or is not a numeral.     *)
(***************************************************************************)
C38_StatusOrMinusOne ==
    awg.op = "get_status" =>
        LET part == BeforeFirstPair(soc.reply)
        IN  /\ awg.raised = "none"
            /\ IF IsNumeral(part)
               THEN awg.ret = Encoded(part)
               ELSE awg.ret = -1

C38_Witness ==
    /\ awg.op = "get_status"
    /\ soc.reply = <<"x", CR, LF>>
    /\ awg.raised = "none"
    /\ awg.ret = -1

====
